---- MODULE Spec2Model ----
(***************************************************************************)
(* airprint-bridge: the Avahi service-file Manager (internal/avahi) and    *)
(* the daemon loop that drives it (internal/daemon).                       *)
(*                                                                         *)
(* Strings are sequences of tokens (one token per character, or one token  *)
(* for a literal the code never looks into, such as ".service").           *)
(***************************************************************************)
EXTENDS Integers, Sequences, FiniteSets, TLC

\* ------------------------------------------------------------------ bounds
\* Longest printer list a backend poll returns in the model.
MaxPrinters == 2

\* Most filesystem operations that fail in one run of the daemon.
MaxFaults == 2

\* ------------------------------------------------------- program constants
\* daemon.DefaultConfig: IPPPort, handed to NewManager as cupsPort.
IPPPort == 8631

\* daemon.DefaultConfig: FilePrefix.
FilePrefix == <<"airprint-">>

\* ------------------------------------------------------------ text helpers
\* strings.ToLower on the model's alphabet (its only upper-case letter is A).
ToLower(s) == [i \in 1..Len(s) |-> IF s[i] = "A" THEN "a" ELSE s[i]]

\* The characters ServiceFileName keeps: [A-Za-z0-9_-], cut to the alphabet.
SafeRunes == {"A", "Z", "a", "b", "c", "z", "0", "9", "-", "_"}

\* fmt's %d of an int.
RECURSIVE Digits(_)
Digits(n) ==
    IF n < 10 THEN << <<"0", "1", "2", "3", "4", "5", "6", "7", "8", "9">>[n + 1] >>
    ELSE Digits(n \div 10) \o Digits(n % 10)
Itoa(n) == IF n < 0 THEN <<"-">> \o Digits(0 - n) ELSE Digits(n)

\* strings.Contains and strings.Join.
RECURSIVE Contains(_, _)
Contains(s, substr) ==
    IF Len(s) < Len(substr) THEN FALSE
    ELSE SubSeq(s, 1, Len(substr)) = substr \/ Contains(Tail(s), substr)

RECURSIVE Join(_, _)
Join(elems, sep) ==
    IF elems = <<>> THEN <<>>
    ELSE IF Len(elems) = 1 THEN elems[1]
    ELSE elems[1] \o sep \o Join(Tail(elems), sep)

\* strings.TrimSpace.
RECURSIVE TrimLeft(_)
TrimLeft(s) == IF s # <<>> /\ Head(s) = " " THEN TrimLeft(Tail(s)) ELSE s

RECURSIVE TrimRight(_)
TrimRight(s) ==
    IF s # <<>> /\ s[Len(s)] = " " THEN TrimRight(SubSeq(s, 1, Len(s) - 1)) ELSE s

TrimSpace(s) == TrimRight(TrimLeft(s))

\* sanitizeName: "_" becomes a space, then < > & " ' become spaces, then trim.
sanitizeName(name) ==
    LET spaced == [i \in 1..Len(name) |-> IF name[i] = "_" THEN " " ELSE name[i]]
        clean  == [i \in 1..Len(spaced) |->
                     IF spaced[i] \in {"<", ">", "&", "\"", "'"} THEN " " ELSE spaced[i]]
    IN  TrimSpace(clean)

\* A ServiceFileName that drops the runes it does not keep.
ServiceFileNameMutDrop(prefix, printerName) ==
    prefix \o SelectSeq(printerName, LAMBDA r : r \in SafeRunes) \o <<".service">>

\* ServiceFileName: every rune outside [A-Za-z0-9_-] is mapped to "_".
ServiceFileName(prefix, printerName) ==
    LET safeName == [i \in 1..Len(printerName) |->
                       IF printerName[i] \in SafeRunes THEN printerName[i] ELSE "_"]
    IN  prefix \o safeName \o <<".service">>

\* atomicWrite's tmpPath := filepath + ".tmp".
TmpPath(filepath) == filepath \o <<".tmp">>

\* ------------------------------------------------------- URF capabilities
\* A NewURFCapabilities that lists full color whatever the printer.
NewURFCapabilitiesMutColor(colorSupported, duplexSupported, resolutions) ==
    [ColorModes  |-> << <<"W8">>, <<"SRGB24">> >>,
     Duplex      |-> << <<"DM1">> >>
                     \o (IF duplexSupported THEN << <<"DM3">>, <<"DM4">> >> ELSE <<>>),
     Quality     |-> << <<"CP255">> >>,
     Resolutions |-> IF Len(resolutions) = 0 THEN <<300>> ELSE resolutions]

\* NewURFCapabilities: grayscale, simplex and the top quality always; with
\* no resolution, 300 dpi.
NewURFCapabilities(colorSupported, duplexSupported, resolutions) ==
    [ColorModes  |-> << <<"W8">> >> \o (IF colorSupported THEN << <<"SRGB24">> >> ELSE <<>>),
     Duplex      |-> << <<"DM1">> >>
                     \o (IF duplexSupported THEN << <<"DM3">>, <<"DM4">> >> ELSE <<>>),
     Quality     |-> << <<"CP255">> >>,
     Resolutions |-> IF Len(resolutions) = 0 THEN <<300>> ELSE resolutions]

\* sort.Ints, as an insertion sort.
RECURSIVE SortInts(_)
SortInts(a) ==
    IF a = <<>> THEN <<>>
    ELSE LET rest == SortInts(Tail(a))
             x    == Head(a)
         IN  SelectSeq(rest, LAMBDA y : y < x) \o <<x>> \o SelectSeq(rest, LAMBDA y : y >= x)

\* A resolutionString that takes the list as it comes, unsorted.
resolutionStringMutUnsorted(u) ==
    IF Len(u.Resolutions) = 0 THEN <<"RS">> \o <<"3", "0", "0">>
    ELSE IF Len(u.Resolutions) = 1 THEN <<"RS">> \o Itoa(u.Resolutions[1])
    ELSE <<"RS">> \o Itoa(u.Resolutions[1]) \o <<"-">>
         \o Itoa(u.Resolutions[Len(u.Resolutions)])

\* URFCapabilities.resolutionString: sort, drop the repeated values, then
\* the one value or the first and the last.
resolutionString(u) ==
    IF Len(u.Resolutions) = 0 THEN <<"RS">> \o <<"3", "0", "0">>
    ELSE LET sorted == SortInts(u.Resolutions)
             keep   == { i \in 1..Len(sorted) : i = 1 \/ sorted[i] # sorted[i - 1] }
             unique == [i \in 1..Cardinality(keep) |->
                          sorted[CHOOSE k \in keep :
                                   Cardinality({ j \in keep : j < k }) = i - 1]]
         IN  IF Len(unique) = 1 THEN <<"RS">> \o Itoa(unique[1])
             ELSE <<"RS">> \o Itoa(unique[1]) \o <<"-">> \o Itoa(unique[Len(unique)])

\* URFCapabilities.String: color modes, quality, resolutions, duplex modes,
\* joined with commas.
URFString(u) ==
    Join(u.ColorModes \o u.Quality \o << resolutionString(u) >> \o u.Duplex, <<",">>)

\* ------------------------------------------------------------ paper sizes
\* cups.NormalizePaperSize's paperMappings, and the order its literal lists
\* the keys in.
paperMappings ==
    [p \in { <<"a", "4">>, <<"a", "3">>, <<"a", "5">>, <<"l", "e", "t", "t", "e", "r">>,
             <<"l", "e", "g", "a", "l">>, <<"t", "a", "b", "l", "o", "i", "d">>,
             <<"e", "x", "e", "c", "u", "t", "i", "v", "e">>, <<"b", "5">>,
             <<"4", "x", "6">>, <<"5", "x", "7">> } |->
        CASE p = <<"a", "4">> -> <<"A4">>
          [] p = <<"a", "3">> -> <<"A3">>
          [] p = <<"a", "5">> -> <<"A5">>
          [] p = <<"l", "e", "t", "t", "e", "r">> -> <<"Letter">>
          [] p = <<"l", "e", "g", "a", "l">> -> <<"Legal">>
          [] p = <<"t", "a", "b", "l", "o", "i", "d">> -> <<"Tabloid">>
          [] p = <<"e", "x", "e", "c", "u", "t", "i", "v", "e">> -> <<"Executive">>
          [] p = <<"b", "5">> -> <<"B5">>
          [] p = <<"4", "x", "6">> -> <<"4x6">>
          [] p = <<"5", "x", "7">> -> <<"5x7">>]

\* The orders in which one range over paperMappings can visit its keys: Go
\* starts a map iteration at a random place, so any key can come first.  Two
\* orders stand for them: the literal's, and its reverse.
MapOrders ==
    LET lit == << <<"a", "4">>, <<"a", "3">>, <<"a", "5">>, <<"l", "e", "t", "t", "e", "r">>,
                  <<"l", "e", "g", "a", "l">>, <<"t", "a", "b", "l", "o", "i", "d">>,
                  <<"e", "x", "e", "c", "u", "t", "i", "v", "e">>, <<"b", "5">>,
                  <<"4", "x", "6">>, <<"5", "x", "7">> >>
    IN  { lit, [i \in 1..Len(lit) |-> lit[Len(lit) + 1 - i]] }

\* cups.NormalizePaperSize: the name of the first pattern, in the order the
\* range visits them, that the lower-cased media name contains; the
\* lower-cased name when there is none.
NormalizePaperSize(media, order) ==
    LET lower == ToLower(media)
        hits  == SelectSeq(order, LAMBDA pattern : Contains(lower, pattern))
    IN  IF hits # <<>> THEN paperMappings[Head(hits)] ELSE lower

\* normalizePaperSizes: each name normalised (orders[i] is the order of the
\* i-th call's range), a name seen before dropped.
normalizePaperSizes(media, orders) ==
    LET normalized == [i \in 1..Len(media) |-> NormalizePaperSize(media[i], orders[i])]
        keep       == { i \in 1..Len(media) : \A j \in 1..(i - 1) : normalized[j] # normalized[i] }
    IN  [i \in 1..Cardinality(keep) |->
           normalized[CHOOSE k \in keep : Cardinality({ j \in keep : j < k }) = i - 1]]

\* ------------------------------------------------------------ TXT records
\* sanitizeProduct: "Unknown Printer" for no model; the parentheses removed;
\* at most 128 bytes.
sanitizeProduct(model) ==
    IF model = <<>> THEN <<"Unknown Printer">>
    ELSE LET bare == SelectSeq(model, LAMBDA c : c \notin {"(", ")"})
         IN  IF Len(bare) > 128 THEN SubSeq(bare, 1, 128) ELSE bare

\* NewTXTRecords: the records map, as a function from the keys that are set.
\* orders are the iteration orders of the calls to NormalizePaperSize.
NewTXTRecords(printer, orders) ==
    LET urf   == NewURFCapabilities(printer.ColorSupported, printer.DuplexSupported,
                                    printer.Resolutions)
        sizes == IF Len(printer.MediaSupported) > 0
                 THEN normalizePaperSizes(printer.MediaSupported, orders) ELSE <<>>
        keys  == {"txtvers", "qtotal", "rp", "ty", "pdl", "URF", "Color", "Duplex",
                  "printer-state", "product", "priority", "Transparent", "Binary", "TBCP"}
                 \cup (IF printer.Location # <<>> \/ printer.Info # <<>> THEN {"note"} ELSE {})
                 \cup (IF Len(sizes) > 0 THEN {"media"} ELSE {})
    IN  [k \in keys |->
           CASE k = "txtvers" -> <<"1">>
             [] k = "qtotal"  -> <<"1">>
             [] k = "rp"      -> <<"printers/">> \o printer.Name
             [] k = "ty"      -> IF printer.MakeModel # <<>> THEN printer.MakeModel
                                 ELSE printer.Name
             [] k = "note"    -> IF printer.Location # <<>> THEN printer.Location
                                 ELSE printer.Info
             [] k = "pdl"     -> <<"image/urf", ",", "application/pdf", ",", "image/jpeg",
                                   ",", "image/png">>
             [] k = "URF"     -> URFString(urf)
             [] k = "Color"   -> IF printer.ColorSupported THEN <<"T">> ELSE <<"F">>
             [] k = "Duplex"  -> IF printer.DuplexSupported THEN <<"T">> ELSE <<"F">>
             [] k = "media"   -> Join(sizes, <<",">>)
             [] k = "printer-state" -> Itoa(printer.State)
             [] k = "product" -> <<"(">> \o sanitizeProduct(printer.MakeModel) \o <<")">>
             [] k = "priority"    -> <<"5", "0">>
             [] k = "Transparent" -> <<"F">>
             [] k = "Binary"      -> <<"F">>
             [] k = "TBCP"        -> <<"F">>]

\* sort.Strings over the record keys: Go compares bytes, so upper case first.
KeyOrder ==
    <<"Binary", "Color", "Duplex", "TBCP", "Transparent", "URF", "media", "note", "pdl",
      "printer-state", "priority", "product", "qtotal", "rp", "txtvers", "ty">>

\* GenerateServiceFile: the XML document as the values it is built from; the
\* TXT records are emitted in sorted key order as "k=v".
GenerateServiceFile(printerName, port, txtRecords) ==
    LET keys    == SelectSeq(KeyOrder, LAMBDA k : k \in DOMAIN txtRecords)
        records == [i \in 1..Len(keys) |-> <<keys[i], "=">> \o txtRecords[keys[i]]]
    IN  [name    |-> sanitizeName(printerName) \o <<" @ %h">>,
         type    |-> "_ipp._tcp",
         subtype |-> "_universal._sub._ipp._tcp",
         port    |-> port,
         txt     |-> records]

\* The content createOrUpdateService generates for a printer that reports
\* no media (no map is iterated for it).
TargetContent(printer) ==
    GenerateServiceFile(printer.Name, IPPPort, NewTXTRecords(printer, <<>>))

\* ------------------------------------------------------- the input universe
NameA     == <<"A">>
NameBDot  == <<"b", ".">>
NameBUnd  == <<"b", "_">>

\* cups.Printer, cut to the fields the Manager and the TXT records read.
Printer(name, shared, accepting, color) ==
    [Name |-> name, MakeModel |-> <<>>, Location |-> <<>>, Info |-> <<>>, State |-> 3,
     IsShared |-> shared, IsAccepting |-> accepting, ColorSupported |-> color,
     DuplexSupported |-> FALSE, Resolutions |-> <<>>, MediaSupported |-> <<>>]

\* The printers a poll can report.  NameBDot and NameBUnd are distinct names
\* with the same service file name.
PrinterUniverse ==
    { Printer(NameA, TRUE, TRUE, FALSE), Printer(NameA, TRUE, TRUE, TRUE),
      Printer(NameA, TRUE, FALSE, FALSE),
      Printer(NameBDot, TRUE, TRUE, FALSE), Printer(NameBDot, FALSE, TRUE, FALSE),
      Printer(NameBUnd, TRUE, TRUE, FALSE) }

\* Client.GetPrinters builds the list from a map keyed by printer name, so
\* the names of one list are pairwise distinct; the order is the map's.
PrinterLists ==
    UNION { { l \in [1..n -> PrinterUniverse] :
                \A i, j \in 1..n : i # j => l[i].Name # l[j].Name } : n \in 0..MaxPrinters }

\* ----------------------------------------------------- the service directory
\* A path with no file, and a file whose write did not complete.
NoFile  == [absent |-> TRUE]
Partial == [partial |-> TRUE]

ForeignFile == <<"ssh", ".service">>
Targets     == { ServiceFileName(FilePrefix, p.Name) : p \in PrinterUniverse }
AllPaths    == Targets \cup { TmpPath(f) : f \in Targets } \cup {ForeignFile}

\* What a previous run can have left at a target path.
ContentsAt(f) ==
    { TargetContent(p) : p \in { q \in PrinterUniverse : ServiceFileName(FilePrefix, q.Name) = f } }

ForeignContent == [name |-> <<"ssh">>, type |-> "_ssh._tcp", subtype |-> "",
                   port |-> 22, txt |-> <<>>]

\* filepath.Glob(serviceDir/prefix*.service): the names that match.
GlobMatches(d) ==
    { f \in AllPaths : /\ d[f] # NoFile
                       /\ Len(f) >= Len(FilePrefix) + 1
                       /\ SubSeq(f, 1, Len(FilePrefix)) = FilePrefix
                       /\ f[Len(f)] = ".service" }

\* ------------------------------------------------------------------- state
Threads == {"main", "aux"}
Free    == "free"
NoErr   == <<>>

\* No ipp.Server has been built; no request has been handled.
NoServer   == [built |-> FALSE]
NoExchange == [handled |-> FALSE]
NoPast     == [submitFailed |-> FALSE]

\* signal.Notify has not run (ready), no SIGTERM or SIGINT has taken effect
\* (got), shutdown has not called Cleanup (cleanups counts its calls).
NoSignal == [ready |-> FALSE, got |-> FALSE, cleanups |-> 0]

\* No SIGHUP is being handled.
NoHup == [none |-> TRUE]

\* The printers section of the config file (ConfigFile.Printers, main.go).
PrintersSection(so, list) == [SharedOnly |-> so, Exclude |-> list]

\* No pure function is under evaluation.
NoCalc == [stage |-> "none"]

VARIABLES
    disk,          \* the service directory: path -> content, NoFile or Partial
    managedFiles,  \* Manager.managedFiles, as the set of its keys
    mu,            \* Manager.mu: Free or the goroutine holding it
    pc,            \* per goroutine: where it is
    fr,            \* per goroutine: the frame of its Manager call
    sharedOnly,    \* Config.SharedOnly
    excludeList,   \* Config.ExcludeList
    prev,          \* history: the last UpdatePrinters pass that returned
    faults,        \* history: how many filesystem operations have failed
    exitErr,       \* what Run returned
    dirState,      \* what Config.ServiceDir is when the daemon starts
    ippStarted,    \* the goroutine running ListenAndServe has been launched
    srv,           \* the ipp.Server the daemon built, or NoServer
    snapshot,      \* history: the printer list of the latest GetPrinters
    exch,          \* history: the latest HTTP exchange of the server
    past,          \* history: what the exchanges before the latest were
    calc,          \* a pure function's evaluation: its input, its results
    sig,           \* SIGTERM and SIGINT: the handler, and what one has done
    cfg,           \* the config file on disk, and what it held at the last SIGHUP
    outage         \* the last syncPrinters could not fetch the printer list

\* The variables of the IPP proxy server.
ippVars == <<srv, snapshot, exch, past>>

vars == <<disk, managedFiles, mu, pc, fr, sharedOnly, excludeList, prev, faults,
          exitErr, dirState, ippStarted, ippVars, calc, sig, cfg, outage>>

\* A frame: the arguments and locals of one Manager call, plus what the call
\* has done so far (nwrites .. delFailed record the call's history).
NoFrame ==
    [op |-> "none", ret |-> "none", printers |-> <<>>, idx |-> 0,
     currentPrinters |-> {}, todo |-> {}, lastErr |-> NoErr, result |-> NoErr,
     nwrites |-> 0, failed |-> FALSE, attempted |-> {}, failedIdx |-> {},
     pre |-> NoFile, failSeq |-> <<>>, delFailed |-> {},
     seen |-> {}, first |-> FALSE, samePrev |-> FALSE, gone |-> {}, retry |-> {}]

\* No pass to look back at.  begun: a pass has started since the daemon did.
NoPrev(begun) ==
    [valid |-> FALSE, printers |-> <<>>, failed |-> FALSE, failedPrinters |-> {},
     begun |-> begun]

\* The frame of a call to op that returns to ret.
CallFrame(op, ret, printers) ==
    [NoFrame EXCEPT !.op = op, !.ret = ret, !.printers = printers, !.idx = 1]

\* What the service directory can hold when the daemon starts: the leftovers
\* of earlier runs at the target paths, and a file that is not the daemon's.
InitialDisks ==
    { d \in [AllPaths -> {NoFile, ForeignContent}
                          \cup UNION { ContentsAt(f) : f \in Targets }] :
        /\ \A f \in Targets : d[f] \in {NoFile} \cup ContentsAt(f)
        /\ \A f \in Targets : d[TmpPath(f)] = NoFile
        /\ d[ForeignFile] = ForeignContent }

\* The state New leaves.  Config.ExcludeList is empty or holds the
\* lower-case spelling of NameA; at Config.ServiceDir os.Stat and
\* os.WriteFile will find a writable directory, nothing, something Stat
\* cannot reach, a file, or a directory the daemon cannot write to.
Init ==
    /\ disk \in InitialDisks
    /\ managedFiles = {}
    /\ mu = Free
    /\ pc = [t \in Threads |-> IF t = "main" THEN "start" ELSE "idle"]
    /\ fr = [t \in Threads |-> NoFrame]
    /\ sharedOnly \in BOOLEAN
    /\ excludeList \in { <<>>, << <<"a">> >> }
    /\ prev = NoPrev(FALSE)
    /\ faults = 0
    /\ exitErr = NoErr
    /\ dirState \in {"ok", "missing", "noaccess", "notdir", "readonly"}
    /\ ippStarted = FALSE
    /\ srv = NoServer
    /\ snapshot = <<>>
    /\ exch = NoExchange
    /\ past = NoPast
    /\ calc = NoCalc
    /\ sig = NoSignal
    /\ cfg = [file |-> PrintersSection(sharedOnly, excludeList), hup |-> NoHup]
    /\ outage = FALSE

\* ------------------------------------------------- UpdatePrinters' filter
\* exclude[strings.ToLower(name)] = true for every name of the list.
ExcludeMap(list) == { ToLower(list[i]) : i \in 1..Len(list) }

\* Variant: the exclusion list is looked up with the name as spelled.
EligibleMutCase(printer, so, list) ==
    /\ printer.Name \notin { list[i] : i \in 1..Len(list) }
    /\ ~(so /\ ~printer.IsShared)
    /\ printer.IsAccepting

\* The three "continue" tests of the loop, negated.
Eligible(printer, so, list) ==
    /\ ToLower(printer.Name) \notin ExcludeMap(list)
    /\ ~(so /\ ~printer.IsShared)
    /\ printer.IsAccepting

\* The printer the loop is at, its file and its content.
Cur(t)        == fr[t].printers[fr[t].idx]
CurFile(t)    == ServiceFileName(FilePrefix, Cur(t).Name)
CurContent(t) == TargetContent(Cur(t))

\* ------------------------------------ history: a pass and the one before
\* Eligibility as the specification words it: the name is not in the
\* exclusion list when both are compared without regard to case, the printer
\* is shared or shared-only is off, and the printer accepts jobs.
IsEligible(printer) ==
    /\ ~\E i \in 1..Len(excludeList) : ToLower(excludeList[i]) = ToLower(printer.Name)
    /\ (printer.IsShared \/ ~sharedOnly)
    /\ printer.IsAccepting

FileOf(printer) == ServiceFileName(FilePrefix, printer.Name)

\* The names in a printer list.
NamesOf(printers) == { printers[i].Name : i \in 1..Len(printers) }

\* The pass that starts now gets the list of the pass before, which met no
\* filesystem failure.
SamePrev(t) ==
    fr[t].op = "update" /\ prev.valid /\ ~prev.failed /\ prev.printers = fr[t].printers

\* The files of the printers that were eligible in the pass before, are on
\* disk now that it is over, and whose printer is not in this pass's list.
Gone(t) ==
    IF fr[t].op = "update" /\ prev.valid
    THEN { FileOf(prev.printers[i]) :
             i \in { j \in 1..Len(prev.printers) :
                       /\ IsEligible(prev.printers[j])
                       /\ disk[FileOf(prev.printers[j])] # NoFile
                       /\ prev.printers[j].Name \notin NamesOf(fr[t].printers) } }
    ELSE {}

\* The places in this pass's list of the printers whose write failed in the
\* pass before and whose descriptor is the same now.
Retry(t) ==
    IF fr[t].op = "update" /\ prev.valid
    THEN { i \in 1..Len(fr[t].printers) : fr[t].printers[i] \in prev.failedPrinters }
    ELSE {}

\* ------------------------------------------------------------ Manager.mu
\* Variant: a Lock that never waits.
CanLockMutAlways(m) == TRUE

\* sync.Mutex: Lock returns only when no goroutine holds the mutex.
CanLock(m) == m = Free

\* m.mu.Lock(), the first statement of the three exported methods.
Lock(t) ==
    /\ pc[t] = "lock"
    /\ CanLock(mu)
    /\ mu' = t
    /\ pc' = [pc EXCEPT ![t] = CASE fr[t].op = "update"   -> "up_loop"
                                 [] fr[t].op = "cleanup"  -> "cl_loop"
                                 [] fr[t].op = "discover" -> "dx_glob"]
    /\ fr' = [fr EXCEPT ![t].todo = managedFiles,
                        ![t].samePrev = SamePrev(t),
                        ![t].gone = Gone(t),
                        ![t].retry = Retry(t),
                        ![t].first = (fr[t].op = "update" /\ ~prev.begun)]
    /\ prev' = NoPrev(prev.begun \/ fr[t].op = "update")
    /\ UNCHANGED <<disk, managedFiles, sharedOnly, excludeList, dirState, calc, outage, cfg, sig, ippStarted, ippVars,
                   faults, exitErr>>

\* defer m.mu.Unlock() and the return to the caller.  (Run calls
\* signal.Notify right after the call that returns to the main loop; the
\* earlier file calls it right after DiscoverExisting.)
Unlock(t) ==
    /\ pc[t] \in {"up_unlock", "cl_unlock", "dx_unlock"}
    /\ mu' = Free
    /\ pc' = [pc EXCEPT ![t] = fr[t].ret]
    /\ fr' = [fr EXCEPT ![t] = NoFrame]
    /\ prev' = IF fr[t].op = "update"
               THEN [valid |-> TRUE, printers |-> fr[t].printers,
                     failed |-> fr[t].failed,
                     failedPrinters |-> { fr[t].printers[i] : i \in fr[t].failedIdx },
                     begun |-> TRUE]
               ELSE NoPrev(prev.begun)
    /\ exitErr' = IF fr[t].op = "cleanup" /\ t = "main" THEN fr[t].result ELSE exitErr
    /\ sig' = IF t = "main" /\ fr[t].ret \in {"select", "sync"}
              THEN [sig EXCEPT !.ready = TRUE] ELSE sig
    /\ UNCHANGED <<disk, managedFiles, sharedOnly, excludeList, dirState, calc, outage, cfg, ippStarted, ippVars,
                   faults>>

\* ------------------------------------------------- Manager.UpdatePrinters
\* The loop over printers: one of the three "continue" branches.
UpSkip(t) ==
    /\ pc[t] = "up_loop"
    /\ fr[t].idx <= Len(fr[t].printers)
    /\ ~Eligible(Cur(t), sharedOnly, excludeList)
    /\ fr' = [fr EXCEPT ![t].idx = @ + 1]
    /\ UNCHANGED <<disk, managedFiles, mu, pc, sharedOnly, excludeList, dirState, calc, outage, cfg, sig, ippStarted,
                   ippVars, prev, faults, exitErr>>

\* Variant: the file is not marked as seen this round.
MarkCurrentMutNone(t) == fr[t].currentPrinters

\* currentPrinters[filename] = true, which UpdatePrinters does before it calls
\* createOrUpdateService.
MarkCurrent(t) == fr[t].currentPrinters \cup {CurFile(t)}

\* Variant: never "nothing to do".
UnchangedMutNever(existing, readOK, content) == FALSE

\* Variant: "nothing to do" as soon as the file can be read.
UnchangedMutExists(existing, readOK, content) == readOK

\* createOrUpdateService's test for "nothing to do": the file was read and
\* its bytes equal the generated content.
Unchanged(existing, readOK, content) == readOK /\ existing = content

\* An eligible printer whose file already holds the target content:
\* createOrUpdateService returns nil without writing and without touching
\* managedFiles.
UpUnchanged(t) ==
    /\ pc[t] = "up_loop"
    /\ fr[t].idx <= Len(fr[t].printers)
    /\ Eligible(Cur(t), sharedOnly, excludeList)
    /\ Unchanged(disk[CurFile(t)], disk[CurFile(t)] # NoFile, CurContent(t))
    /\ fr' = [fr EXCEPT ![t].idx = @ + 1, ![t].currentPrinters = MarkCurrent(t),
                        ![t].seen = @ \cup {fr[t].idx}]
    /\ UNCHANGED <<disk, managedFiles, mu, pc, sharedOnly, excludeList, dirState, calc, outage, cfg, sig, ippStarted,
                   ippVars, prev, faults, exitErr>>

\* An eligible printer whose file is missing, differs, or could not be read
\* (readOK = FALSE on an existing file is a failed os.ReadFile): go on to
\* atomicWrite.
UpNeedsWrite(t) ==
    /\ pc[t] = "up_loop"
    /\ fr[t].idx <= Len(fr[t].printers)
    /\ Eligible(Cur(t), sharedOnly, excludeList)
    /\ \E readOK \in BOOLEAN :
         /\ readOK => disk[CurFile(t)] # NoFile
         /\ faults' = IF ~readOK /\ disk[CurFile(t)] # NoFile THEN faults + 1 ELSE faults
         /\ faults' <= MaxFaults
         /\ ~Unchanged(disk[CurFile(t)], readOK, CurContent(t))
         /\ fr' = [fr EXCEPT ![t].currentPrinters = MarkCurrent(t),
                             ![t].pre = disk[CurFile(t)],
                             ![t].attempted = @ \cup {fr[t].idx},
                             ![t].seen = @ \cup {fr[t].idx},
                             ![t].failed = @ \/ (~readOK /\ disk[CurFile(t)] # NoFile)]
    /\ pc' = [pc EXCEPT ![t] = "aw_write"]
    /\ UNCHANGED <<disk, managedFiles, mu, sharedOnly, excludeList, dirState, calc, outage, cfg, sig, ippStarted,
                   ippVars, prev, exitErr>>

\* createOrUpdateService returned an error: UpdatePrinters logs it and goes on
\* with the next printer.
WriteFailed(t) ==
    [fr EXCEPT ![t].idx = @ + 1, ![t].nwrites = @ + 1, ![t].failed = TRUE,
               ![t].failedIdx = @ \cup {fr[t].idx}]

\* Variant: the content is written straight to the target path.
WritePathMutDirect(filepath) == filepath

\* The path atomicWrite hands to os.WriteFile.
WritePath(filepath) == TmpPath(filepath)

\* os.WriteFile fails before it has written anything (the open fails).
AwOpenFail(t) ==
    /\ pc[t] = "aw_write"
    /\ fr' = WriteFailed(t)
    /\ pc' = [pc EXCEPT ![t] = "up_loop"]
    /\ UNCHANGED <<disk, managedFiles, mu, sharedOnly, excludeList, dirState, calc, outage, cfg, sig, ippStarted,
                   ippVars, prev, exitErr>>
    /\ faults < MaxFaults
    /\ faults' = faults + 1

\* os.WriteFile has created or truncated the file and written part of it.
AwWriteBegin(t) ==
    /\ pc[t] = "aw_write"
    /\ disk' = [disk EXCEPT ![WritePath(CurFile(t))] = Partial]
    /\ fr' = [fr EXCEPT ![t].nwrites = @ + 1]
    /\ pc' = [pc EXCEPT ![t] = "aw_write2"]
    /\ UNCHANGED <<managedFiles, mu, sharedOnly, excludeList, dirState, calc, outage, cfg, sig, ippStarted, ippVars,
                   prev, faults, exitErr>>

\* os.WriteFile completes.
AwWriteEnd(t) ==
    /\ pc[t] = "aw_write2"
    /\ disk' = [disk EXCEPT ![WritePath(CurFile(t))] = CurContent(t)]
    /\ pc' = [pc EXCEPT ![t] = "aw_rename"]
    /\ UNCHANGED <<managedFiles, mu, fr, sharedOnly, excludeList, dirState, calc, outage, cfg, sig, ippStarted,
                   ippVars, prev, faults, exitErr>>

\* os.WriteFile fails part-way (disk full): the partial file stays, since
\* atomicWrite removes the temp file only when the rename fails.
AwWriteFail(t) ==
    /\ pc[t] = "aw_write2"
    /\ fr' = [WriteFailed(t) EXCEPT ![t].nwrites = fr[t].nwrites]
    /\ pc' = [pc EXCEPT ![t] = "up_loop"]
    /\ UNCHANGED <<disk, managedFiles, mu, sharedOnly, excludeList, dirState, calc, outage, cfg, sig, ippStarted,
                   ippVars, prev, exitErr>>
    /\ faults < MaxFaults
    /\ faults' = faults + 1

\* Variant: the rename leaves both paths as they were.
RenamedMutNoop(d, from, to) == d

\* os.Rename(from, to): to gets from's content, from is gone.
Renamed(d, from, to) == [d EXCEPT ![to] = d[from], ![from] = NoFile]

\* os.Rename(tmpPath, filepath) succeeds, then m.managedFiles[filename] = true.
AwRename(t) ==
    /\ pc[t] = "aw_rename"
    /\ disk' = Renamed(disk, TmpPath(CurFile(t)), CurFile(t))
    /\ managedFiles' = managedFiles \cup {CurFile(t)}
    /\ fr' = [fr EXCEPT ![t].idx = @ + 1, ![t].nwrites = @ + 1]
    /\ pc' = [pc EXCEPT ![t] = "up_loop"]
    /\ UNCHANGED <<mu, sharedOnly, excludeList, dirState, calc, outage, cfg, sig, ippStarted, ippVars, prev, faults,
                   exitErr>>

\* os.Rename fails: os.Remove(tmpPath), whose own error is ignored.
AwRenameFail(t) ==
    /\ pc[t] = "aw_rename"
    /\ \E removed \in BOOLEAN :
         /\ disk' = [disk EXCEPT ![TmpPath(CurFile(t))] = IF removed THEN NoFile ELSE @]
         /\ faults' = IF removed THEN faults + 1 ELSE faults + 2
         /\ faults' <= MaxFaults
    /\ fr' = WriteFailed(t)
    /\ pc' = [pc EXCEPT ![t] = "up_loop"]
    /\ UNCHANGED <<managedFiles, mu, sharedOnly, excludeList, dirState, calc, outage, cfg, sig, ippStarted, ippVars,
                   prev, exitErr>>

\* The loop over printers is over.
UpEndLoop(t) ==
    /\ pc[t] = "up_loop"
    /\ fr[t].idx > Len(fr[t].printers)
    /\ pc' = [pc EXCEPT ![t] = "up_orphans"]
    /\ UNCHANGED <<disk, managedFiles, mu, fr, sharedOnly, excludeList, dirState, calc, outage, cfg, sig, ippStarted,
                   ippVars, prev, faults, exitErr>>

\* Variant: every service file of the daemon's prefix that was not seen this
\* round is removed, managed or not.
OrphansMutUnmanaged(managed, current) == Targets \ current

\* The files the second loop removes: managed and not seen this round.
Orphans(managed, current) == managed \ current

\* Variant: the removal reports success and removes nothing.
RemoveServiceFileMutKeep(d, filename, ok) == d

\* removeServiceFile: os.Remove; a file that is not there is no error.
\* ok = FALSE is any other failure, which leaves the directory as it was.
RemoveServiceFile(d, filename, ok) ==
    IF ok THEN [d EXCEPT ![filename] = NoFile] ELSE d

\* One iteration of the loop over managedFiles: remove the file, log a
\* failure, and delete the entry in either case.
UpRemoveOrphan(t) ==
    /\ pc[t] = "up_orphans"
    /\ \E filename \in Orphans(managedFiles, fr[t].currentPrinters), ok \in BOOLEAN :
         /\ ok \/ (disk[filename] # NoFile /\ faults < MaxFaults)
         /\ faults' = IF ok THEN faults ELSE faults + 1
         /\ disk' = RemoveServiceFile(disk, filename, ok)
         /\ managedFiles' = managedFiles \ {filename}
         /\ fr' = [fr EXCEPT ![t].failed = @ \/ ~ok,
                             ![t].delFailed = IF ok THEN @ ELSE @ \cup {filename}]
    /\ UNCHANGED <<mu, pc, sharedOnly, excludeList, dirState, calc, outage, cfg, sig, ippStarted, ippVars, prev, exitErr>>

\* No orphan is left: return nil.
UpReturn(t) ==
    /\ pc[t] = "up_orphans"
    /\ Orphans(managedFiles, fr[t].currentPrinters) = {}
    /\ fr' = [fr EXCEPT ![t].result = NoErr]
    /\ pc' = [pc EXCEPT ![t] = "up_unlock"]
    /\ UNCHANGED <<disk, managedFiles, mu, sharedOnly, excludeList, dirState, calc, outage, cfg, sig, ippStarted,
                   ippVars, prev, faults, exitErr>>

\* -------------------------------------------------------- Manager.Cleanup
\* Variant: the first error is kept.
KeepErrMutFirst(lastErr, filename, ok) ==
    IF ok \/ lastErr # NoErr THEN lastErr ELSE <<"remove", filename>>

\* The error Cleanup keeps after a removal: the new one if it failed.
KeepErr(lastErr, filename, ok) == IF ok THEN lastErr ELSE <<"remove", filename>>

\* One iteration of the loop over managedFiles (todo: the keys not yet
\* visited; the map is not changed inside the loop).
ClRemove(t) ==
    /\ pc[t] = "cl_loop"
    /\ \E filename \in fr[t].todo, ok \in BOOLEAN :
         /\ ok \/ (disk[filename] # NoFile /\ faults < MaxFaults)
         /\ faults' = IF ok THEN faults ELSE faults + 1
         /\ disk' = RemoveServiceFile(disk, filename, ok)
         /\ fr' = [fr EXCEPT ![t].todo = @ \ {filename},
                             ![t].lastErr = KeepErr(@, filename, ok),
                             ![t].failSeq = IF ok THEN @ ELSE Append(@, filename)]
    /\ UNCHANGED <<managedFiles, mu, pc, sharedOnly, excludeList, dirState, calc, outage, cfg, sig, ippStarted,
                   ippVars, prev, exitErr>>

\* After the loop: clear the map (m.managedFiles = make(map[string]bool))
\* and return lastErr.
ClReturn(t) ==
    /\ pc[t] = "cl_loop"
    /\ fr[t].todo = {}
    /\ managedFiles' = {}
    /\ fr' = [fr EXCEPT ![t].result = fr[t].lastErr]
    /\ pc' = [pc EXCEPT ![t] = "cl_unlock"]
    /\ UNCHANGED <<disk, mu, sharedOnly, excludeList, dirState, calc, outage, cfg, sig, ippStarted, ippVars, prev,
                   faults, exitErr>>

\* ----------------------------------------------- Manager.DiscoverExisting
\* Glob the directory and track every match.  (filepath.Glob fails only on
\* a malformed pattern, which the fixed prefix is not.)
DxGlob(t) ==
    /\ pc[t] = "dx_glob"
    /\ managedFiles' = managedFiles \cup GlobMatches(disk)
    /\ fr' = [fr EXCEPT ![t].result = NoErr]
    /\ pc' = [pc EXCEPT ![t] = "dx_unlock"]
    /\ UNCHANGED <<disk, mu, sharedOnly, excludeList, dirState, calc, outage, cfg, sig, ippStarted, ippVars, prev,
                   faults, exitErr>>

\* --------------------------------------------------------------- Daemon
\* A goroutine calls a Manager method: it goes to the method's first
\* statement, m.mu.Lock().
Call(t, op, ret, printers) ==
    /\ pc' = [pc EXCEPT ![t] = "lock"]
    /\ fr' = [fr EXCEPT ![t] = CallFrame(op, ret, printers)]

\* verifyServiceDir without the test write.
verifyServiceDirMutNoWrite(dir) ==
    CASE dir = "missing"  -> <<"service directory does not exist">>
      [] dir = "noaccess" -> <<"cannot access service directory">>
      [] dir = "notdir"   -> <<"service directory is not a directory">>
      [] OTHER            -> NoErr

\* Daemon.verifyServiceDir: Stat the directory, require a directory, write
\* and remove the test file .airprint-bridge-test.  The result is the error,
\* or NoErr.  (The removal of the file just written is taken to succeed; its
\* error is ignored by the code.)
verifyServiceDir(dir) ==
    CASE dir = "missing"  -> <<"service directory does not exist">>
      [] dir = "noaccess" -> <<"cannot access service directory">>
      [] dir = "notdir"   -> <<"service directory is not a directory">>
      [] dir = "readonly" -> <<"service directory is not writable">>
      [] OTHER            -> NoErr

\* Daemon.Run up to the main loop (daemon.go, current file): test the CUPS
\* connection, verify the service directory, fetch the printers, build the
\* IPP server and launch its goroutine, and call UpdatePrinters with the
\* list.  (The fields of the server are followed under SpecIPP.)
RunStart ==
    /\ pc["main"] = "start"
    /\ verifyServiceDir(dirState) = NoErr
    /\ \E printers \in PrinterLists : Call("main", "update", "select", printers)
    /\ ippStarted' = TRUE
    /\ UNCHANGED <<disk, managedFiles, mu, sharedOnly, excludeList, dirState, calc, outage, cfg, sig, ippVars, prev,
                   faults, exitErr>>

\* Daemon.Run, same place: TestConnection fails, or (the directory being
\* fine) GetPrinters fails, and Run returns the error.
RunStartFail ==
    /\ pc["main"] = "start"
    /\ pc' = [pc EXCEPT !["main"] = "exited"]
    /\ \/ exitErr' = <<"cannot connect to CUPS">>
       \/ /\ verifyServiceDir(dirState) = NoErr
          /\ exitErr' = <<"failed to get printers">>
    /\ UNCHANGED <<disk, managedFiles, mu, fr, sharedOnly, excludeList, dirState, calc, outage, cfg, sig, ippStarted,
                   ippVars, prev, faults>>

\* Daemon.Run, same place: verifyServiceDir fails and Run returns its error.
RunVerifyFail ==
    /\ pc["main"] = "start"
    /\ verifyServiceDir(dirState) # NoErr
    /\ pc' = [pc EXCEPT !["main"] = "exited"]
    /\ exitErr' = verifyServiceDir(dirState)
    /\ UNCHANGED <<disk, managedFiles, mu, fr, sharedOnly, excludeList, dirState, calc, outage, cfg, sig, ippStarted,
                   ippVars, prev, faults>>

\* Daemon.Run of the earlier file: after the two checks it calls
\* DiscoverExisting, then runs the initial syncPrinters.  It has no server.
RunStartEarlier ==
    /\ pc["main"] = "start"
    /\ verifyServiceDir(dirState) = NoErr
    /\ Call("main", "discover", "sync", <<>>)
    /\ UNCHANGED <<disk, managedFiles, mu, sharedOnly, excludeList, dirState, calc, outage, cfg, sig, ippStarted,
                   ippVars, prev, faults, exitErr>>

\* syncPrinters: GetPrinters succeeded, call UpdatePrinters.
SyncPrinters ==
    /\ pc["main"] = "sync"
    /\ \E printers \in PrinterLists : Call("main", "update", "select", printers)
    /\ cfg' = [cfg EXCEPT !.hup = NoHup]
    /\ UNCHANGED <<disk, managedFiles, mu, sharedOnly, excludeList, dirState, calc, outage, sig, ippStarted,
                   ippVars, prev, faults, exitErr>>

\* Variant: a failed fetch ends Run, as it does before the main loop.
SyncFailMutReturn ==
    /\ pc["main"] = "sync"
    /\ pc' = [pc EXCEPT !["main"] = "exited"]
    /\ exitErr' = <<"failed to get printers">>
    /\ cfg' = [cfg EXCEPT !.hup = NoHup]
    /\ outage' = TRUE
    /\ UNCHANGED <<disk, managedFiles, mu, fr, sharedOnly, excludeList, dirState, calc, sig, ippStarted,
                   ippVars, prev, faults>>

\* syncPrinters: GetPrinters failed; the caller logs the error and goes on
\* to the next select.
SyncFail ==
    /\ pc["main"] = "sync"
    /\ pc' = [pc EXCEPT !["main"] = "select"]
    /\ cfg' = [cfg EXCEPT !.hup = NoHup]
    /\ outage' = TRUE
    /\ UNCHANGED <<disk, managedFiles, mu, fr, sharedOnly, excludeList, dirState, calc, sig, ippStarted,
                   ippVars, prev, faults, exitErr>>

\* The select takes SIGHUP from sigChan: the handler logs "reloading" and
\* calls syncPrinters; it reads no file.  (cfg.hup keeps what the config
\* file held at that moment, until syncPrinters has used d.config.)
SelectReload ==
    /\ pc["main"] = "select"
    /\ pc' = [pc EXCEPT !["main"] = "sync"]
    /\ cfg' = [cfg EXCEPT !.hup = cfg.file]
    /\ outage' = FALSE
    /\ UNCHANGED <<disk, managedFiles, mu, fr, sharedOnly, excludeList, dirState, calc, sig, ippStarted,
                   ippVars, prev, faults, exitErr>>

\* The select of the main loop takes a tick.
SelectSync ==
    /\ pc["main"] = "select"
    /\ pc' = [pc EXCEPT !["main"] = "sync"]
    /\ outage' = FALSE
    /\ UNCHANGED <<disk, managedFiles, mu, fr, sharedOnly, excludeList, dirState, calc, cfg, sig, ippStarted,
                   ippVars, prev, faults, exitErr>>

\* The select takes ctx.Done(), SIGTERM or SIGINT: shutdown calls Cleanup
\* and Run returns its error.
SelectShutdown ==
    /\ pc["main"] = "select"
    /\ Call("main", "cleanup", "exited", <<>>)
    /\ sig' = [sig EXCEPT !.got = TRUE, !.cleanups = sig.cleanups + 1]
    /\ outage' = FALSE
    /\ UNCHANGED <<disk, managedFiles, mu, sharedOnly, excludeList, dirState, calc, cfg, ippStarted,
                   ippVars, prev, faults, exitErr>>

\* The process dies (kill -9, power loss): the directory stays as it is,
\* everything in memory is gone.
Crash ==
    /\ pc["main"] \notin {"exited", "crashed"}
    /\ pc' = [t \in Threads |-> "crashed"]
    /\ fr' = [t \in Threads |-> NoFrame]
    /\ mu' = Free
    /\ managedFiles' = {}
    /\ prev' = NoPrev(prev.begun)
    /\ ippStarted' = FALSE
    /\ sig' = NoSignal
    /\ outage' = FALSE
    /\ UNCHANGED <<disk, sharedOnly, excludeList, dirState, calc, cfg, ippVars, faults, exitErr>>

\* SIGTERM or SIGINT arrives before Run has reached signal.Notify, which it
\* calls after the initial pass (daemon.go:184-185; the earlier file calls
\* it once DiscoverExisting has returned, before its initial syncPrinters):
\* the Go runtime's default action ends the process at once, no shutdown
\* code runs, the directory stays as it is.
SignalBeforeNotify ==
    /\ pc["main"] \notin {"exited", "crashed"}
    /\ ~sig.ready
    /\ pc' = [t \in Threads |-> "crashed"]
    /\ fr' = [t \in Threads |-> NoFrame]
    /\ mu' = Free
    /\ managedFiles' = {}
    /\ prev' = NoPrev(prev.begun)
    /\ ippStarted' = FALSE
    /\ sig' = [sig EXCEPT !.got = TRUE]
    /\ outage' = FALSE
    /\ UNCHANGED <<disk, sharedOnly, excludeList, dirState, calc, cfg, ippVars, faults, exitErr>>

\* A second goroutine calls one of the Manager's exported methods; the list
\* it passes to UpdatePrinters has no printer, or one.
AuxCall ==
    /\ pc["aux"] = "idle"
    /\ pc["main"] \notin {"exited", "crashed"}
    /\ \/ \E printers \in { <<>>, << Printer(NameA, TRUE, TRUE, TRUE) >> } :
             Call("aux", "update", "idle", printers)
       \/ Call("aux", "cleanup", "idle", <<>>)
       \/ Call("aux", "discover", "idle", <<>>)
    /\ UNCHANGED <<disk, managedFiles, mu, sharedOnly, excludeList, dirState, calc, outage, cfg, sig, ippStarted,
                   ippVars, prev, faults, exitErr>>

\* One step of a Manager method by goroutine t.
ManagerStep(t) ==
    \/ Lock(t) \/ Unlock(t)
    \/ UpSkip(t) \/ UpUnchanged(t) \/ UpNeedsWrite(t)
    \/ AwOpenFail(t) \/ AwWriteBegin(t) \/ AwWriteEnd(t) \/ AwWriteFail(t)
    \/ AwRename(t) \/ AwRenameFail(t)
    \/ UpEndLoop(t) \/ UpRemoveOrphan(t) \/ UpReturn(t)
    \/ ClRemove(t) \/ ClReturn(t)
    \/ DxGlob(t)

\* The daemon as it runs: one goroutine drives the Manager.
Next ==
    \/ RunStart \/ RunStartFail \/ RunVerifyFail \/ RunStartEarlier
    \/ SyncPrinters \/ SyncFail \/ SelectSync \/ SelectReload \/ SelectShutdown
    \/ Crash \/ SignalBeforeNotify
    \/ ManagerStep("main")

Spec == Init /\ [][Next]_vars

\* The Manager under two goroutines.
NextConc == Next \/ AuxCall \/ ManagerStep("aux")

\* It starts on a directory that holds no service file of the daemon, with
\* the default configuration (SharedOnly, no exclusions).
InitConc ==
    /\ Init
    /\ sharedOnly
    /\ excludeList = <<>>
    /\ \A f \in Targets : disk[f] = NoFile

SpecConc == InitConc /\ [][NextConc]_vars

\* The operator rewrites the printers section of the config file while the
\* daemon runs: shared_only off, or the lower-case spelling of NameA
\* excluded, or back to the defaults.
EditConfig ==
    /\ pc["main"] \notin {"exited", "crashed"}
    /\ \E file \in { PrintersSection(TRUE, <<>>), PrintersSection(FALSE, <<>>),
                      PrintersSection(TRUE, << <<"a">> >>) } \ {cfg.file} :
           cfg' = [cfg EXCEPT !.file = file]
    /\ UNCHANGED <<disk, managedFiles, mu, fr, pc, sharedOnly, excludeList, dirState, calc, outage, sig,
                   ippStarted, ippVars, prev, faults, exitErr>>

\* The daemon while its config file is edited.
NextReload == Next \/ EditConfig

\* It starts on a directory that holds no service file of the
\* daemon, with the default configuration.
InitReload ==
    /\ Init
    /\ sharedOnly
    /\ excludeList = <<>>
    /\ \A f \in Targets : disk[f] = NoFile

SpecReload == InitReload /\ [][NextReload]_vars

\* ======================================================== the IPP proxy
\* IPP operation codes.
OpPrintJob == 2
OpValidateJob == 4
OpGetJobAttributes == 9
OpGetJobs == 10
OpGetPrinterAttributes == 11
OpCancelJob == 8

\* IPP status codes.
StatusOK == 0
StatusClientErrorBadRequest == 1024
StatusServerErrorInternalError == 1280

\* IPP attribute tags.
TagEnd == 3
TagOperationAttrs == 1
TagJobAttrs == 2
TagPrinterAttrs == 4
TagInteger == 33
TagBoolean == 34
TagEnum == 35
TagTextWithoutLang == 65
TagNameWithoutLang == 66
TagKeyword == 68
TagURI == 69
TagCharset == 71
TagNaturalLang == 72
TagMimeMediaType == 73

\* A byte string is a sequence of numbers in 0..255.  A Go string is a
\* sequence of one-character tokens; Ord is the byte of a character (the
\* strings of the server and of the model's printer names are ASCII).
OrdTable ==
    "\n" :> 10 @@ " " :> 32 @@ "-" :> 45 @@ "." :> 46 @@ "/" :> 47 @@ "0" :> 48 @@ "1" :> 49 @@
    "2" :> 50 @@ "3" :> 51 @@ "4" :> 52 @@ "5" :> 53 @@ "6" :> 54 @@ "7" :> 55 @@ "8" :> 56 @@
    "9" :> 57 @@ ":" :> 58 @@ "A" :> 65 @@ "B" :> 66 @@ "C" :> 67 @@ "D" :> 68 @@ "E" :> 69 @@
    "G" :> 71 @@ "H" :> 72 @@ "I" :> 73 @@ "J" :> 74 @@ "L" :> 76 @@ "M" :> 77 @@ "O" :> 79 @@
    "P" :> 80 @@ "R" :> 82 @@ "S" :> 83 @@ "T" :> 84 @@ "U" :> 85 @@ "V" :> 86 @@ "W" :> 87 @@
    "Z" :> 90 @@ "_" :> 95 @@ "a" :> 97 @@ "b" :> 98 @@ "c" :> 99 @@ "d" :> 100 @@
    "e" :> 101 @@ "f" :> 102 @@ "g" :> 103 @@ "h" :> 104 @@ "i" :> 105 @@ "j" :> 106 @@
    "k" :> 107 @@ "l" :> 108 @@ "m" :> 109 @@ "n" :> 110 @@ "o" :> 111 @@ "p" :> 112 @@
    "q" :> 113 @@ "r" :> 114 @@ "s" :> 115 @@ "t" :> 116 @@ "u" :> 117 @@ "v" :> 118 @@
    "w" :> 119 @@ "x" :> 120 @@ "y" :> 121

\* []byte(s), and what buf.WriteString(s) appends.
Bytes(s) == [i \in 1..Len(s) |-> OrdTable[s[i]]]

\* binary.BigEndian.Uint16 and Uint32 of a 2- and a 4-byte slice.
Uint16(b) == b[1] * 256 + b[2]
Uint32(b) == ((b[1] * 256 + b[2]) * 256 + b[3]) * 256 + b[4]

\* binary.Write(buf, binary.BigEndian, v) for a uint16 and for a 32-bit v
\* (two's complement for a negative int32); the conversion uint16(n) wraps.
\* The numbers of the model stay below 2^31, where int32(n) is n.
PutUint16(n) == << (n \div 256) % 256, n % 256 >>
PutUint32(n) ==
    << (n \div 16777216) % 256, (n \div 65536) % 256, (n \div 256) % 256, n % 256 >>

\* The dynamic types writeAttribute's value can have.
StringValue(s) == [kind |-> "string", v |-> s]
Int32Value(n)  == [kind |-> "int32", v |-> n]
BoolValue(b)   == [kind |-> "bool", v |-> b]

\* Server.writeAttribute: tag, name length, name, then the value by its
\* type; a value of any other type gets no length and no bytes.
writeAttribute(tag, name, value) ==
    <<tag>> \o PutUint16(Len(name)) \o Bytes(name) \o
    CASE value.kind = "string" -> PutUint16(Len(value.v)) \o Bytes(value.v)
      [] value.kind = "int32"  -> PutUint16(4) \o PutUint32(value.v)
      [] value.kind = "bool"   -> PutUint16(1) \o << IF value.v THEN 1 ELSE 0 >>
      [] OTHER                 -> <<>>

\* A writeAttributeMulti that writes the first of the values only.
writeAttributeMultiMutFirst(tag, values) ==
    IF values = <<>> THEN <<>>
    ELSE <<tag>> \o PutUint16(0) \o PutUint16(Len(Head(values))) \o Bytes(Head(values))

\* Server.writeAttributeMulti: each value as an attribute with an empty name.
RECURSIVE writeAttributeMulti(_, _)
writeAttributeMulti(tag, values) ==
    IF values = <<>> THEN <<>>
    ELSE <<tag>> \o PutUint16(0) \o PutUint16(Len(Head(values))) \o Bytes(Head(values))
         \o writeAttributeMulti(tag, Tail(values))

\* Server.writeOperationsSupported: the first operation with the name, the
\* others with an empty name.
RECURSIVE MoreOps(_)
MoreOps(ops) ==
    IF ops = <<>> THEN <<>>
    ELSE <<TagEnum>> \o PutUint16(0) \o PutUint16(4) \o PutUint32(Head(ops)) \o MoreOps(Tail(ops))
writeOperationsSupported ==
    LET ops == <<OpPrintJob, OpValidateJob, OpGetJobAttributes, OpGetJobs,
                 OpGetPrinterAttributes, OpCancelJob>>
        name == <<"o", "p", "e", "r", "a", "t", "i", "o", "n", "s", "-", "s", "u", "p", "p", "o", "r", "t", "e", "d">>
    IN  <<TagEnum>> \o PutUint16(Len(name)) \o Bytes(name) \o PutUint16(4)
        \o PutUint32(Head(ops)) \o MoreOps(Tail(ops))

\* The start of every response: version 2.0, the status, the request id.
Header(status, requestID) == PutUint16(512) \o PutUint16(status) \o PutUint32(requestID)

\* The operation-attributes group every response carries.
OperationAttrs ==
    <<TagOperationAttrs>>
    \o writeAttribute(TagCharset,
            <<"a", "t", "t", "r", "i", "b", "u", "t", "e", "s", "-", "c", "h", "a", "r", "s", "e", "t">>,
            StringValue(<<"u", "t", "f", "-", "8">>))
    \o writeAttribute(TagNaturalLang,
            <<"a", "t", "t", "r", "i", "b", "u", "t", "e", "s", "-", "n", "a", "t", "u", "r", "a", "l", "-", "l", "a", "n", "g", "u", "a", "g", "e">>,
            StringValue(<<"e", "n", "-", "u", "s">>))

\* buildErrorResponse that always reports success.
buildErrorResponseMutOK(requestID, status) ==
    Header(StatusOK, requestID) \o OperationAttrs \o <<TagEnd>>

\* Server.buildErrorResponse.
buildErrorResponse(requestID, status) ==
    Header(status, requestID) \o OperationAttrs \o <<TagEnd>>

\* Server.handleGetPrinterAttributes.
handleGetPrinterAttributes(s, requestID, printerName) ==
    Header(StatusOK, requestID)
    \o OperationAttrs
    \o <<TagPrinterAttrs>>
    \o writeAttribute(TagURI,
            <<"p", "r", "i", "n", "t", "e", "r", "-", "u", "r", "i", "-", "s", "u", "p", "p", "o", "r", "t", "e", "d">>,
            StringValue(s.printerURI))
    \o writeAttribute(TagKeyword,
            <<"u", "r", "i", "-", "s", "e", "c", "u", "r", "i", "t", "y", "-", "s", "u", "p", "p", "o", "r", "t", "e", "d">>,
            StringValue(<<"n", "o", "n", "e">>))
    \o writeAttribute(TagKeyword,
            <<"u", "r", "i", "-", "a", "u", "t", "h", "e", "n", "t", "i", "c", "a", "t", "i", "o", "n", "-", "s", "u", "p", "p", "o", "r", "t", "e", "d">>,
            StringValue(<<"n", "o", "n", "e">>))
    \o writeAttribute(TagNameWithoutLang,
            <<"p", "r", "i", "n", "t", "e", "r", "-", "n", "a", "m", "e">>,
            StringValue(s.printerName))
    \o writeAttribute(TagEnum,
            <<"p", "r", "i", "n", "t", "e", "r", "-", "s", "t", "a", "t", "e">>,
            Int32Value(3))
    \o writeAttribute(TagKeyword,
            <<"p", "r", "i", "n", "t", "e", "r", "-", "s", "t", "a", "t", "e", "-", "r", "e", "a", "s", "o", "n", "s">>,
            StringValue(<<"n", "o", "n", "e">>))
    \o writeAttribute(TagKeyword,
            <<"i", "p", "p", "-", "v", "e", "r", "s", "i", "o", "n", "s", "-", "s", "u", "p", "p", "o", "r", "t", "e", "d">>,
            StringValue(<<"2", ".", "0">>))
    \o writeAttribute(TagKeyword,
            <<"o", "p", "e", "r", "a", "t", "i", "o", "n", "s", "-", "s", "u", "p", "p", "o", "r", "t", "e", "d">>,
            StringValue(<<>>))
    \o writeOperationsSupported
    \o writeAttribute(TagMimeMediaType,
            <<"d", "o", "c", "u", "m", "e", "n", "t", "-", "f", "o", "r", "m", "a", "t", "-", "s", "u", "p", "p", "o", "r", "t", "e", "d">>,
            StringValue(<<"i", "m", "a", "g", "e", "/", "u", "r", "f">>))
    \o writeAttributeMulti(TagMimeMediaType, <<
            <<"a", "p", "p", "l", "i", "c", "a", "t", "i", "o", "n", "/", "p", "d", "f">>,
            <<"i", "m", "a", "g", "e", "/", "j", "p", "e", "g">>,
            <<"i", "m", "a", "g", "e", "/", "p", "n", "g">>>>)
    \o writeAttribute(TagMimeMediaType,
            <<"d", "o", "c", "u", "m", "e", "n", "t", "-", "f", "o", "r", "m", "a", "t", "-", "d", "e", "f", "a", "u", "l", "t">>,
            StringValue(<<"i", "m", "a", "g", "e", "/", "u", "r", "f">>))
    \o writeAttribute(TagBoolean,
            <<"p", "r", "i", "n", "t", "e", "r", "-", "i", "s", "-", "a", "c", "c", "e", "p", "t", "i", "n", "g", "-", "j", "o", "b", "s">>,
            BoolValue(TRUE))
    \o writeAttribute(TagInteger,
            <<"q", "u", "e", "u", "e", "d", "-", "j", "o", "b", "-", "c", "o", "u", "n", "t">>,
            Int32Value(0))
    \o writeAttribute(TagKeyword,
            <<"p", "d", "l", "-", "o", "v", "e", "r", "r", "i", "d", "e", "-", "s", "u", "p", "p", "o", "r", "t", "e", "d">>,
            StringValue(<<"a", "t", "t", "e", "m", "p", "t", "e", "d">>))
    \o writeAttribute(TagNameWithoutLang,
            <<"p", "r", "i", "n", "t", "e", "r", "-", "m", "a", "k", "e", "-", "a", "n", "d", "-", "m", "o", "d", "e", "l">>,
            StringValue(<<"Z", "e", "b", "r", "a", " ", "Z", "P", "L", " ", "L", "a", "b", "e", "l", " ", "P", "r", "i", "n", "t", "e", "r">>))
    \o writeAttribute(TagTextWithoutLang,
            <<"p", "r", "i", "n", "t", "e", "r", "-", "l", "o", "c", "a", "t", "i", "o", "n">>,
            StringValue(<<"L", "o", "c", "a", "l">>))
    \o writeAttribute(TagBoolean,
            <<"c", "o", "l", "o", "r", "-", "s", "u", "p", "p", "o", "r", "t", "e", "d">>,
            BoolValue(FALSE))
    \o writeAttribute(TagKeyword,
            <<"m", "e", "d", "i", "a", "-", "d", "e", "f", "a", "u", "l", "t">>,
            StringValue(<<"o", "e", "_", "4", "x", "6", "-", "l", "a", "b", "e", "l", "_", "4", "x", "6", "i", "n">>))
    \o writeAttributeMulti(TagKeyword, <<
            <<"o", "e", "_", "4", "x", "6", "-", "l", "a", "b", "e", "l", "_", "4", "x", "6", "i", "n">>,
            <<"o", "e", "_", "4", "x", "3", "-", "l", "a", "b", "e", "l", "_", "4", "x", "3", "i", "n">>,
            <<"o", "e", "_", "4", "x", "4", "-", "l", "a", "b", "e", "l", "_", "4", "x", "4", "i", "n">>,
            <<"o", "e", "_", "3", "x", "2", "-", "l", "a", "b", "e", "l", "_", "3", "x", "2", "i", "n">>,
            <<"o", "e", "_", "2", "x", "1", "-", "l", "a", "b", "e", "l", "_", "2", "x", "1", "i", "n">>>>)
    \o writeAttribute(TagKeyword,
            <<"s", "i", "d", "e", "s", "-", "s", "u", "p", "p", "o", "r", "t", "e", "d">>,
            StringValue(<<"o", "n", "e", "-", "s", "i", "d", "e", "d">>))
    \o writeAttribute(TagKeyword,
            <<"s", "i", "d", "e", "s", "-", "d", "e", "f", "a", "u", "l", "t">>,
            StringValue(<<"o", "n", "e", "-", "s", "i", "d", "e", "d">>))
    \o writeAttribute(TagKeyword,
            <<"u", "r", "f", "-", "s", "u", "p", "p", "o", "r", "t", "e", "d">>,
            StringValue(<<"W", "8">>))
    \o writeAttributeMulti(TagKeyword, <<
            <<"C", "P", "2", "5", "5">>,
            <<"R", "S", "2", "0", "3">>,
            <<"D", "M", "1">>,
            <<"V", "1", ".", "4">>>>)
    \o <<TagEnd>>

\* findDocumentStart that takes the end of the body when it finds no marker.
findDocumentStartMutEnd(body) ==
    LET hits == { i \in 8..(Len(body) - 1) : body[i + 1] = TagEnd }
    IN  IF hits = {} THEN Len(body)
        ELSE (CHOOSE i \in hits : \A j \in hits : i <= j) + 1

\* Server.findDocumentStart: the offset after the first byte 0x03 at offset
\* 8 or later, or -1.  (Go offsets count from 0, the model's from 1.)
findDocumentStart(body) ==
    LET hits == { i \in 8..(Len(body) - 1) : body[i + 1] = TagEnd }
    IN  IF hits = {} THEN 0 - 1
        ELSE (CHOOSE i \in hits : \A j \in hits : i <= j) + 1

\* What cupsClient.PrintJob can return: an error, or a job id (1 or 300).
SubmitFailed == [ok |-> FALSE, jobID |-> 0]
BackendOutcomes == { SubmitFailed } \cup { [ok |-> TRUE, jobID |-> n] : n \in {1, 300} }

\* Variant: the job is submitted under the printer name of the request path.
handlePrintJobMutPath(s, requestID, printerName, body, outcome) ==
    LET docStart == findDocumentStart(body)
        call     == [printerName |-> printerName,
                     document |-> SubSeq(body, docStart + 1, Len(body)),
                     jobName |-> <<"A", "i", "r", "P", "r", "i", "n", "t", " ", "J", "o", "b">>,
                     result |-> outcome]
        jobID    == outcome.jobID
    IN  IF docStart < 0
        THEN [response |-> buildErrorResponse(requestID, StatusClientErrorBadRequest),
              calls |-> <<>>]
        ELSE IF ~outcome.ok
        THEN [response |-> buildErrorResponse(requestID, StatusServerErrorInternalError),
              calls |-> <<call>>]
        ELSE [response |->
                Header(StatusOK, requestID)
                \o OperationAttrs
                \o <<TagJobAttrs>>
                \o writeAttribute(TagInteger,
            <<"j", "o", "b", "-", "i", "d">>,
            Int32Value(jobID))
                \o writeAttribute(TagURI,
            <<"j", "o", "b", "-", "u", "r", "i">>,
            StringValue(s.printerURI \o <<"/", "j", "o", "b", "s", "/">> \o Itoa(jobID)))
                \o writeAttribute(TagEnum,
            <<"j", "o", "b", "-", "s", "t", "a", "t", "e">>,
            Int32Value(3))
                \o <<TagEnd>>,
              calls |-> <<call>>]

\* Server.handlePrintJob.  The result is the response and the calls made to
\* the backend (at most one PrintJob).
handlePrintJob(s, requestID, printerName, body, outcome) ==
    LET docStart == findDocumentStart(body)
        call     == [printerName |-> s.printerName,
                     document |-> SubSeq(body, docStart + 1, Len(body)),
                     jobName |-> <<"A", "i", "r", "P", "r", "i", "n", "t", " ", "J", "o", "b">>,
                     result |-> outcome]
        jobID    == outcome.jobID
    IN  IF docStart < 0
        THEN [response |-> buildErrorResponse(requestID, StatusClientErrorBadRequest),
              calls |-> <<>>]
        ELSE IF ~outcome.ok
        THEN [response |-> buildErrorResponse(requestID, StatusServerErrorInternalError),
              calls |-> <<call>>]
        ELSE [response |->
                Header(StatusOK, requestID)
                \o OperationAttrs
                \o <<TagJobAttrs>>
                \o writeAttribute(TagInteger,
            <<"j", "o", "b", "-", "i", "d">>,
            Int32Value(jobID))
                \o writeAttribute(TagURI,
            <<"j", "o", "b", "-", "u", "r", "i">>,
            StringValue(s.printerURI \o <<"/", "j", "o", "b", "s", "/">> \o Itoa(jobID)))
                \o writeAttribute(TagEnum,
            <<"j", "o", "b", "-", "s", "t", "a", "t", "e">>,
            Int32Value(3))
                \o <<TagEnd>>,
              calls |-> <<call>>]

\* Server.handleValidateJob, handleGetJobs and handleCancelJob: a success
\* response with the operation attributes only.
handleValidateJob(requestID) == Header(StatusOK, requestID) \o OperationAttrs \o <<TagEnd>>
handleGetJobs(requestID)     == Header(StatusOK, requestID) \o OperationAttrs \o <<TagEnd>>
handleCancelJob(requestID, body) == Header(StatusOK, requestID) \o OperationAttrs \o <<TagEnd>>

\* Server.handleGetJobAttributes.
handleGetJobAttributes(requestID, body) ==
    Header(StatusOK, requestID)
    \o OperationAttrs
    \o <<TagJobAttrs>>
    \o writeAttribute(TagEnum,
            <<"j", "o", "b", "-", "s", "t", "a", "t", "e">>,
            Int32Value(9))
    \o writeAttribute(TagKeyword,
            <<"j", "o", "b", "-", "s", "t", "a", "t", "e", "-", "r", "e", "a", "s", "o", "n", "s">>,
            StringValue(<<"j", "o", "b", "-", "c", "o", "m", "p", "l", "e", "t", "e", "d", "-", "s", "u", "c", "c", "e", "s", "s", "f", "u", "l", "l", "y">>))
    \o <<TagEnd>>

\* http.Error(w, msg, code): a plain-text response with the message.
HttpError(msg, code) ==
    [status |-> code, contentType |-> <<"text/plain; charset=utf-8">>,
     body |-> Bytes(msg \o <<"\n">>)]

\* A switch without the default case: an unknown code is validated.
DispatchMutFallThrough(operation) ==
    CASE operation = OpGetPrinterAttributes -> "handleGetPrinterAttributes"
      [] operation = OpPrintJob             -> "handlePrintJob"
      [] operation = OpGetJobs              -> "handleGetJobs"
      [] operation = OpGetJobAttributes     -> "handleGetJobAttributes"
      [] operation = OpCancelJob            -> "handleCancelJob"
      [] OTHER                              -> "handleValidateJob"

\* The switch of Server.handleIPP: the case an operation code selects.
Dispatch(operation) ==
    CASE operation = OpGetPrinterAttributes -> "handleGetPrinterAttributes"
      [] operation = OpPrintJob             -> "handlePrintJob"
      [] operation = OpValidateJob          -> "handleValidateJob"
      [] operation = OpGetJobs              -> "handleGetJobs"
      [] operation = OpGetJobAttributes     -> "handleGetJobAttributes"
      [] operation = OpCancelJob            -> "handleCancelJob"
      [] OTHER                              -> "default"

\* Server.handleIPP.  The result is what was written to w, the switch case
\* that ran ("none" before the switch) and the calls made to the backend.
handleIPP(s, r, printerName, outcome) ==
    IF r.method # "POST"
    THEN [resp |-> HttpError(<<"M", "e", "t", "h", "o", "d", " ", "n", "o", "t", " ", "a", "l", "l", "o", "w", "e", "d">>, 405),
          handler |-> "none", calls |-> <<>>]
    ELSE IF ~r.readOK \/ Len(r.body) < 8
    THEN [resp |-> HttpError(<<"B", "a", "d", " ", "r", "e", "q", "u", "e", "s", "t">>, 400),
          handler |-> "none", calls |-> <<>>]
    ELSE
    LET body      == r.body
        operation == Uint16(SubSeq(body, 3, 4))
        requestID == Uint32(SubSeq(body, 5, 8))
        handler   == Dispatch(operation)
        printJob  == handlePrintJob(s, requestID, printerName, body, outcome)
        response  ==
            CASE handler = "handleGetPrinterAttributes" ->
                     handleGetPrinterAttributes(s, requestID, printerName)
              [] handler = "handlePrintJob"         -> printJob.response
              [] handler = "handleValidateJob"      -> handleValidateJob(requestID)
              [] handler = "handleGetJobs"          -> handleGetJobs(requestID)
              [] handler = "handleGetJobAttributes" -> handleGetJobAttributes(requestID, body)
              [] handler = "handleCancelJob"        -> handleCancelJob(requestID, body)
              [] OTHER -> buildErrorResponse(requestID, StatusClientErrorBadRequest)
    IN  [resp |-> [status |-> 200, contentType |-> <<"application/ipp">>, body |-> response],
         handler |-> handler,
         calls |-> IF handler = "handlePrintJob" THEN printJob.calls ELSE <<>>]

\* Server.handleRoot: a GET gets the banner, anything else goes to handleIPP
\* with no printer name.
handleRoot(s, r, outcome) ==
    IF r.method = "GET"
    THEN [resp |-> [status |-> 200, contentType |-> <<"text/plain; charset=utf-8">>,
                    body |-> Bytes(<<"A", "i", "r", "P", "r", "i", "n", "t", " ", "B", "r", "i", "d", "g", "e", " ", "I", "P", "P", " ", "S", "e", "r", "v", "e", "r">>)],
          handler |-> "none", calls |-> <<>>]
    ELSE handleIPP(s, r, <<>>, outcome)

\* strings.Split(path, "/")[0]: the part before the first "/".
RECURSIVE BeforeSlash(_)
BeforeSlash(path) ==
    IF path = <<>> \/ Head(path) = "/" THEN <<>>
    ELSE <<Head(path)>> \o BeforeSlash(Tail(path))

\* Server.handlePrinter: the printer name is the first path segment after
\* /printers/ (the prefix is one token of the path).
handlePrinter(s, r, outcome) ==
    handleIPP(s, r, BeforeSlash(Tail(r.path)), outcome)

\* ipp.PrinterConfig as Daemon.Run fills it: from the first printer of the
\* list, or zero-valued when the list is empty.
PrinterConfig(printers) ==
    IF Len(printers) > 0
    THEN [Name |-> printers[1].Name, MakeModel |-> printers[1].MakeModel,
          Location |-> printers[1].Location, Color |-> printers[1].ColorSupported]
    ELSE [Name |-> <<>>, MakeModel |-> <<>>, Location |-> <<>>, Color |-> FALSE]

\* fmt.Sprintf(":%d", d.config.IPPPort).
ListenAddr == <<":">> \o Itoa(IPPPort)

\* strings.Split(listenAddr, ":")[1]: what follows the first ":" up to the
\* next one.
RECURSIVE BeforeColon(_)
BeforeColon(a) ==
    IF a = <<>> \/ Head(a) = ":" THEN <<>> ELSE <<Head(a)>> \o BeforeColon(Tail(a))
RECURSIVE AfterColon(_)
AfterColon(a) == IF Head(a) = ":" THEN Tail(a) ELSE AfterColon(Tail(a))

\* ipp.NewServer: the server keeps the name of the printer and a URI made
\* of the port and the name; it keeps nothing else of the PrinterConfig.
NewServer(listenAddr, printer) ==
    [built |-> TRUE, listening |-> TRUE, listenAddr |-> listenAddr,
     printerName |-> printer.Name,
     printerURI |-> <<"i", "p", "p", ":", "/", "/", "c", "u", "p", "s", ".", "l", "o", "c", "a", "l", ":">> \o BeforeColon(AfterColon(listenAddr))
                    \o <<"/", "p", "r", "i", "n", "t", "e", "r", "s", "/">> \o printer.Name]

\* ------------------------------------------------- the server's inputs
\* Request ids a client sends; the second has the byte 3 in its header.
RequestIDs == {1, 16909060}

\* The request bodies of the model: truncated headers; Print-Job requests
\* with no attribute, with one or two well-formed groups (plain, with an
\* enum of value 3, with a name of three bytes), each cut before the end
\* marker or followed by the end marker and a document; and for every
\* operation code, supported or not, a bare header and a complete request.
Bodies ==
    LET hdr(op, id) == PutUint16(512) \o PutUint16(op) \o PutUint32(id)
        a1 == <<TagOperationAttrs>> \o writeAttribute(TagCharset, <<"a">>, StringValue(<<"b">>))
        a2 == a1 \o <<TagJobAttrs>> \o writeAttribute(TagEnum, <<"o">>, Int32Value(3))
        a3 == <<TagOperationAttrs>>
              \o writeAttribute(TagKeyword, <<"a", "b", "c">>, StringValue(<<"d">>))
        docs  == { <<>>, <<37, 80>>, <<80, 3, 68>> }
        tails == { <<>> } \cup { <<TagEnd>> \o d : d \in docs }
        ops   == { OpValidateJob, OpCancelJob, OpGetJobAttributes, OpGetJobs,
                   OpGetPrinterAttributes, 3, 16386 }
    IN  { SubSeq(hdr(OpPrintJob, 1), 1, n) : n \in {0, 3, 7} }
        \cup { hdr(OpPrintJob, id) \o a \o t :
                 id \in RequestIDs, a \in { <<>>, a1, a2, a3 }, t \in tails }
        \cup { hdr(op, id) \o a1 \o <<TagEnd>> : op \in ops, id \in RequestIDs }
        \cup { hdr(op, 1) : op \in ops }

\* The paths of the two patterns of the mux.
Paths == { <<"/">>, <<"/printers/">> \o NameA }

\* The HTTP requests of the model; readOK: io.ReadAll(r.Body) succeeds.
Requests ==
    [method : {"POST"}, path : Paths, body : Bodies, readOK : {TRUE}]
    \cup [method : {"POST"}, path : Paths, body : { <<>> }, readOK : {FALSE}]
    \cup [method : {"GET", "PUT"}, path : Paths,
          body : { <<>>, PutUint16(512) \o PutUint16(OpPrintJob) \o PutUint32(1) \o <<TagEnd>> },
          readOK : {TRUE}]

\* The printer lists the backend reports to a daemon that runs the server.
PollLists ==
    { <<>>,
      << Printer(NameA, TRUE, TRUE, FALSE) >>,
      << [Printer(NameBDot, TRUE, TRUE, TRUE) EXCEPT !.MakeModel = <<"H", "P">>,
                                                      !.Location = <<"L", "a", "b">>] >> }

\* ------------------------------------------------- the server's actions
\* The Manager's part of the state, which the server never touches.
mgrVars == <<disk, managedFiles, mu, fr, sharedOnly, excludeList, prev, faults>>

\* Daemon.Run from the first GetPrinters to the launch of the server's
\* goroutine.  (The UpdatePrinters call that follows is followed under Spec.)
ServeStart ==
    /\ pc["main"] = "start"
    /\ verifyServiceDir(dirState) = NoErr
    /\ \E printers \in PollLists :
         /\ snapshot' = printers
         /\ srv' = NewServer(ListenAddr, PrinterConfig(printers))
    /\ ippStarted' = TRUE
    /\ pc' = [pc EXCEPT !["main"] = "select"]
    /\ UNCHANGED <<mgrVars, exitErr, dirState, calc, outage, cfg, sig, exch, past>>

\* http.ListenAndServe returns an error (the port is taken): the goroutine
\* logs it and ends, the daemon goes on without a server.
ServeListenFail ==
    /\ ippStarted /\ srv.built /\ srv.listening
    /\ exch = NoExchange
    /\ srv' = [srv EXCEPT !.listening = FALSE]
    /\ UNCHANGED <<mgrVars, pc, exitErr, dirState, calc, outage, cfg, sig, ippStarted, snapshot, exch, past>>

\* syncPrinters: a tick or a SIGHUP fetches the printers again.
Poll ==
    /\ pc["main"] = "select"
    /\ \E printers \in PollLists : snapshot' = printers
    /\ UNCHANGED <<mgrVars, pc, exitErr, dirState, calc, outage, cfg, sig, ippStarted, srv, exch, past>>

\* The pattern of the mux that a path matches.
Route(path) == IF Head(path) = "/printers/" THEN "printer" ELSE "root"

\* The exchange that ends with result becomes the latest one; the one
\* before it is summed up in past.
Served(r, result) ==
    /\ exch' = [handled |-> TRUE, req |-> r, resp |-> result.resp,
                handler |-> result.handler, calls |-> result.calls]
    /\ past' = IF ~exch.handled THEN past
               ELSE [submitFailed |-> past.submitFailed
                                      \/ \E i \in 1..Len(exch.calls) : ~exch.calls[i].result.ok]

\* One request on a path of the pattern "/".  The backend's answer is an
\* input of the handler only when the handler calls the backend.
HandleRoot ==
    /\ ippStarted /\ srv.built /\ srv.listening
    /\ \E r \in Requests :
         /\ Route(r.path) = "root"
         /\ LET failed == handleRoot(srv, r, SubmitFailed)
            IN  \/ Served(r, failed)
                \/ /\ failed.calls # <<>>
                   /\ \E outcome \in BackendOutcomes \ {SubmitFailed} :
                        Served(r, handleRoot(srv, r, outcome))
    /\ UNCHANGED <<mgrVars, pc, exitErr, dirState, calc, outage, cfg, sig, ippStarted, srv, snapshot>>

\* One request on a path of the pattern "/printers/".
HandlePrinter ==
    /\ ippStarted /\ srv.built /\ srv.listening
    /\ \E r \in Requests :
         /\ Route(r.path) = "printer"
         /\ LET failed == handlePrinter(srv, r, SubmitFailed)
            IN  \/ Served(r, failed)
                \/ /\ failed.calls # <<>>
                   /\ \E outcome \in BackendOutcomes \ {SubmitFailed} :
                        Served(r, handlePrinter(srv, r, outcome))
    /\ UNCHANGED <<mgrVars, pc, exitErr, dirState, calc, outage, cfg, sig, ippStarted, srv, snapshot>>

\* The daemon with its proxy server, the Manager left aside.
NextIPP == ServeStart \/ ServeListenFail \/ Poll \/ HandleRoot \/ HandlePrinter

InitIPP ==
    /\ InitConc
    /\ dirState = "ok"

SpecIPP == InitIPP /\ [][NextIPP]_vars

\* ===================================================== the message codec
\* The rest of the state while a pure function is evaluated: the daemon has
\* not started.
Idle ==
    /\ disk = [f \in AllPaths |-> IF f = ForeignFile THEN ForeignContent ELSE NoFile]
    /\ managedFiles = {}
    /\ mu = Free
    /\ pc = [t \in Threads |-> IF t = "main" THEN "start" ELSE "idle"]
    /\ fr = [t \in Threads |-> NoFrame]
    /\ sharedOnly = TRUE
    /\ excludeList = <<>>
    /\ prev = NoPrev(FALSE)
    /\ faults = 0
    /\ exitErr = NoErr
    /\ dirState = "ok"
    /\ ippStarted = FALSE
    /\ srv = NoServer
    /\ snapshot = <<>>
    /\ exch = NoExchange
    /\ past = NoPast
    /\ sig = NoSignal
    /\ cfg = [file |-> PrintersSection(sharedOnly, excludeList), hup |-> NoHup]
    /\ outage = FALSE

\* All the variables but calc.
progVars == <<mgrVars, pc, exitErr, dirState, ippStarted, ippVars, sig, cfg, outage>>

\* A message is [code, requestID, groups]; a group is [tag, attrs]; an
\* attribute is [tag, name, values] with one value or more.  The handlers
\* write an attribute as writeAttribute with the first value, followed for
\* text values by writeAttributeMulti with the others, and for enum values
\* by the loop of writeOperationsSupported.
WriteAttr(a) ==
    LET more == [i \in 1..(Len(a.values) - 1) |-> a.values[i + 1].v]
    IN  writeAttribute(a.tag, a.name, a.values[1])
        \o (IF a.values[1].kind = "string" THEN writeAttributeMulti(a.tag, more)
            ELSE MoreOps(more))

RECURSIVE WriteAttrs(_)
WriteAttrs(attrs) ==
    IF attrs = <<>> THEN <<>> ELSE WriteAttr(Head(attrs)) \o WriteAttrs(Tail(attrs))

RECURSIVE WriteGroups(_)
WriteGroups(groups) ==
    IF groups = <<>> THEN <<>>
    ELSE <<Head(groups).tag>> \o WriteAttrs(Head(groups).attrs) \o WriteGroups(Tail(groups))

\* A whole message as the handlers write one: the header (version 2.0, the
\* code, the request id), each group's tag byte and attributes, the end tag.
WriteMessage(m) ==
    Header(m.code, m.requestID) \o WriteGroups(m.groups) \o <<TagEnd>>

\* handleIPP's reading of the fixed header.
ParseHeader(body) ==
    [version   |-> Uint16(SubSeq(body, 1, 2)),
     operation |-> Uint16(SubSeq(body, 3, 4)),
     requestID |-> Uint32(SubSeq(body, 5, 8))]

\* The attributes and messages the codec is run on: text, negative and
\* largest integers, booleans, a multi-valued text attribute with an empty
\* value, a multi-valued enum.
CodecMessages ==
    LET a1 == [tag |-> TagKeyword, name |-> <<"a", "b">>, values |-> << StringValue(<<"c">>) >>]
        a2 == [tag |-> TagInteger, name |-> <<"n">>, values |-> << Int32Value(0 - 1) >>]
        a3 == [tag |-> TagBoolean, name |-> <<"b">>, values |-> << BoolValue(TRUE) >>]
        a4 == [tag |-> TagKeyword, name |-> <<"m">>,
               values |-> << StringValue(<<"a">>), StringValue(<<>>), StringValue(<<"b", "c">>) >>]
        a5 == [tag |-> TagEnum, name |-> <<"e">>,
               values |-> << Int32Value(3), Int32Value(2147483647) >>]
        a6 == [tag |-> TagInteger, name |-> <<"q">>, values |-> << Int32Value(0 - 16909060) >>]
        a7 == [tag |-> TagBoolean, name |-> <<"f">>, values |-> << BoolValue(FALSE) >>]
        lists  == { <<>>, <<a1>>, <<a2, a3>>, <<a4>>, <<a5, a1>>, <<a4, a5>>, <<a6, a7>> }
        groups == { [tag |-> t, attrs |-> l] :
                      t \in {TagOperationAttrs, TagPrinterAttrs}, l \in lists }
    IN  { [code |-> c, requestID |-> id, groups |-> g] :
            c \in {StatusOK, OpGetPrinterAttributes, StatusServerErrorInternalError},
            id \in {1, 2147483647},
            g \in {<<>>} \cup { <<x>> : x \in groups }
                  \cup { << [tag |-> TagOperationAttrs, attrs |-> <<>>], x >> : x \in groups } }

\* A message is written ...
CodecWrite ==
    /\ calc.stage = "message"
    /\ calc' = [calc EXCEPT !.stage = "written", !.wire = WriteMessage(calc.m)]
    /\ UNCHANGED progVars

\* ... and the header of what was written is read back.
CodecParse ==
    /\ calc.stage = "written"
    /\ calc' = [calc EXCEPT !.stage = "parsed", !.header = ParseHeader(calc.wire)]
    /\ UNCHANGED progVars

NextCodec == CodecWrite \/ CodecParse

InitCodec ==
    /\ Idle
    /\ calc \in { [stage |-> "message", m |-> m, wire |-> <<>>,
                   header |-> [version |-> 0, operation |-> 0, requestID |-> 0]] :
                    m \in CodecMessages }

SpecCodec == InitCodec /\ [][NextCodec]_vars

\* ============================================== the capability translator
\* The printer descriptors the translation is run on: names with characters
\* a file name keeps and does not keep, with and without make/model, location
\* and info, resolution lists with repeats and out of order, media names that
\* contain no pattern, one pattern (a4, A4) and two (a4x6: a4 and 4x6).
Descriptors ==
    { [Printer(n, TRUE, TRUE, c) EXCEPT !.MakeModel = mm, !.Location = li[1], !.Info = li[2],
                                        !.DuplexSupported = d, !.Resolutions = r,
                                        !.MediaSupported = ms] :
        n  \in { NameA, NameBDot, NameBUnd, <<"a", "0", "-", "Z">>, <<"c", " ", "é", "/">> },
        c  \in BOOLEAN, d \in BOOLEAN,
        mm \in { <<>>, <<"H", "P">>, <<"H", "(", "P", ")">> },
        li \in { << <<>>, <<>> >>, << <<"L", "a", "b">>, <<"i">> >>, << <<>>, <<"i">> >> },
        r  \in { <<>>, <<600>>, <<300, 600, 300>>, <<600, 300, 1200>>, <<203, 203>> },
        ms \in { <<>>, << <<"a", "4">> >>, << <<"a", "4", "x", "6">> >>,
                 << <<"A", "4">>, <<"a", "4">> >>, << <<"b", "c">>, <<"a", "4", "x", "6">> >> } }

\* One iteration order for each call of NormalizePaperSize.
OrderLists(printer) == [1..Len(printer.MediaSupported) -> MapOrders]

\* createOrUpdateService's first statement: the TXT records of the printer
\* (with them the capability string and its resolution token).
Translate ==
    /\ calc.stage = "descriptor"
    /\ \E orders \in OrderLists(calc.printer) :
         LET p == calc.printer
             u == NewURFCapabilities(p.ColorSupported, p.DuplexSupported, p.Resolutions)
         IN  calc' = [calc EXCEPT !.stage = "translated",
                                  !.token = resolutionString(u),
                                  !.bare = resolutionString([Resolutions |-> p.Resolutions]),
                                  !.urf = URFString(u),
                                  !.txt = NewTXTRecords(p, orders)]
    /\ UNCHANGED progVars

\* ... its second and third: the file content and the file name.
Generate ==
    /\ calc.stage = "translated"
    /\ calc' = [calc EXCEPT !.stage = "generated",
                            !.file = GenerateServiceFile(calc.printer.Name, IPPPort, calc.txt),
                            !.filename = ServiceFileName(calc.prefix, calc.printer.Name)]
    /\ UNCHANGED progVars

\* The next pass generates the content of the same printer again.
GenerateAgain ==
    /\ calc.stage = "generated"
    /\ \E orders \in OrderLists(calc.printer) :
         calc' = [calc EXCEPT !.stage = "regenerated",
                              !.again = GenerateServiceFile(calc.printer.Name, IPPPort,
                                                            NewTXTRecords(calc.printer, orders))]
    /\ UNCHANGED progVars

NextTranslate == Translate \/ Generate \/ GenerateAgain

InitTranslate ==
    /\ Idle
    /\ calc \in { [stage |-> "descriptor", printer |-> p, prefix |-> x, token |-> <<>>,
                   bare |-> <<>>, urf |-> <<>>, txt |-> <<>>, file |-> NoFile,
                   filename |-> <<>>, again |-> NoFile] :
                    p \in Descriptors, x \in { FilePrefix, <<>> } }

SpecTranslate == InitTranslate /\ [][NextTranslate]_vars

\* ============================================== main: the configuration
\* daemon.DefaultConfig, as far as main's overrides are followed here.
DefaultConfig ==
    [CUPSPort |-> 631, IPPPort |-> IPPPort, SharedOnly |-> TRUE, ExcludeList |-> <<>>]

\* applyFileConfig: a port of the file replaces the default when it is not
\* zero; SharedOnly and ExcludeList are taken from the file as they are (a
\* key the file does not have is the zero value: FALSE, no name).
applyFileConfig(config, cfgFile) ==
    [config EXCEPT !.CUPSPort = IF cfgFile.CUPSPort # 0 THEN cfgFile.CUPSPort ELSE @,
                   !.IPPPort = IF cfgFile.IPPPort # 0 THEN cfgFile.IPPPort ELSE @,
                   !.SharedOnly = cfgFile.Printers.SharedOnly,
                   !.ExcludeList = cfgFile.Printers.Exclude]

\* main, from DefaultConfig to daemon.New: the defaults, the file if
\* loadConfig returned no error, then the flags.  flag.Int yields 0 and
\* flag.Bool("shared-only", true, ...) yields true when the flag is not on
\* the command line; config.SharedOnly = *sharedOnly is not conditional.
MainConfig(loaded, args) ==
    LET fromFile == IF loaded.ok THEN applyFileConfig(DefaultConfig, loaded.cfg)
                    ELSE DefaultConfig
        sharedOnlyFlag == IF args.sharedOnlyGiven THEN args.sharedOnly ELSE TRUE
    IN  [fromFile EXCEPT !.CUPSPort = IF args.cupsPort # 0 THEN args.cupsPort ELSE @,
                         !.IPPPort = IF args.ippPort # 0 THEN args.ippPort ELSE @,
                         !.SharedOnly = sharedOnlyFlag]

\* main builds the configuration.
BuildConfig ==
    /\ calc.stage = "args"
    /\ calc' = [calc EXCEPT !.stage = "config",
                            !.config = MainConfig(calc.loaded, calc.args)]
    /\ UNCHANGED progVars

\* daemon.New(config, log): the daemon keeps the configuration; every pass
\* reads d.config.SharedOnly and d.config.ExcludeList.
NewDaemon ==
    /\ calc.stage = "config"
    /\ calc' = [calc EXCEPT !.stage = "daemon", !.daemonConfig = calc.config]
    /\ UNCHANGED progVars

NextMain == BuildConfig \/ NewDaemon

\* What loadConfig returns (no file or an unreadable one, or a file with or
\* without ports, with shared_only on or off, with or without an excluded
\* name) and what is on the command line.
InitMain ==
    /\ Idle
    /\ \E loaded \in { [ok |-> FALSE, cfg |-> <<>>] }
                     \cup { [ok |-> TRUE,
                             cfg |-> [CUPSPort |-> cp, IPPPort |-> ip,
                                      Printers |-> PrintersSection(so, ex)]] :
                            cp \in {0, 632}, ip \in {0, 8632}, so \in BOOLEAN,
                            ex \in { <<>>, << <<"a">> >> } },
          args \in { [cupsPort |-> cp, ippPort |-> ip, sharedOnlyGiven |-> g,
                      sharedOnly |-> v] :
                     cp \in {0, 633}, ip \in {0, 8633}, g \in BOOLEAN, v \in BOOLEAN } :
          /\ (~args.sharedOnlyGiven => args.sharedOnly)
          /\ calc = [stage |-> "args", loaded |-> loaded, args |-> args,
                     config |-> DefaultConfig, daemonConfig |-> DefaultConfig]

SpecMain == InitMain /\ [][NextMain]_vars

\* ================================================================ claims
\* A pass of goroutine t is complete: both loops are over, the lock is still
\* held.
PassDone(t) == pc[t] = "up_unlock"

\* No two eligible printers of t's list have the same service file name.
NoCollision(t) ==
    \A i, j \in 1..Len(fr[t].printers) :
        (i # j /\ IsEligible(fr[t].printers[i]) /\ IsEligible(fr[t].printers[j]))
            => FileOf(fr[t].printers[i]) # FileOf(fr[t].printers[j])

\* No eligible printer after place i of t's list has the file name of the
\* printer at place i.
LastForFile(t, i) ==
    \A j \in (i + 1)..Len(fr[t].printers) :
        IsEligible(fr[t].printers[j])
            => FileOf(fr[t].printers[j]) # FileOf(fr[t].printers[i])

C2_AsClaimed ==
    \A t \in Threads :
        (PassDone(t) /\ ~fr[t].failed) =>
            \A i \in 1..Len(fr[t].printers) :
                IsEligible(fr[t].printers[i]) =>
                    disk[FileOf(fr[t].printers[i])] = TargetContent(fr[t].printers[i])

\* C2, amended: after a pass without filesystem failure, whatever the
\* directory held before, every eligible printer of the list that no later
\* eligible printer of the list shares its file name with has its file,
\* holding the content generated from it.
C2_DesiredState ==
    \A t \in Threads :
        (PassDone(t) /\ ~fr[t].failed) =>
            \A i \in 1..Len(fr[t].printers) :
                (IsEligible(fr[t].printers[i]) /\ LastForFile(t, i)) =>
                    disk[FileOf(fr[t].printers[i])] = TargetContent(fr[t].printers[i])

\* A pass without failure has ended that found one file with other content
\* and one file missing, and wrote both.
C2_Witness ==
    \E t \in Threads :
        /\ PassDone(t) /\ ~fr[t].failed
        /\ Cardinality(fr[t].attempted) = 2
        /\ fr[t].nwrites = 4
        /\ \A i \in 1..Len(fr[t].printers) :
             disk[FileOf(fr[t].printers[i])] = TargetContent(fr[t].printers[i])

\* C3: a printer that was eligible in one pass, so that its file is on disk
\* when that pass is over, and that is not in the list of the next pass, has
\* no file when the next pass is over, if no deletion failed in it.  (A file
\* that another eligible printer of the next pass owns by name is let pass.)
C3_Convergence ==
    \A t \in Threads :
        (PassDone(t) /\ fr[t].delFailed = {}) =>
            \A f \in fr[t].gone : disk[f] = NoFile \/ f \in fr[t].currentPrinters

\* C4: when the first pass of a run begins, every file of the directory that
\* matches <prefix>*.service is in the managed set; and when that pass is
\* over without a failed deletion, no such file is left that is not the file
\* of an eligible printer.
C4_DiscoveryFirst ==
    \A t \in Threads :
        /\ (fr[t].first /\ pc[t] = "up_loop" /\ fr[t].idx = 1)
               => GlobMatches(disk) \subseteq managedFiles
        /\ (fr[t].first /\ PassDone(t) /\ fr[t].delFailed = {})
               => GlobMatches(disk) \subseteq fr[t].currentPrinters

\* A goroutine is between Lock and Unlock of a Manager method.
InBody(t) ==
    pc[t] \in {"up_loop", "aw_write", "aw_write2", "aw_rename", "up_orphans",
               "up_unlock", "cl_loop", "cl_unlock", "dx_glob", "dx_unlock"}

\* C5: no two goroutines are inside UpdatePrinters, Cleanup or
\* DiscoverExisting at once: whoever is inside holds the mutex, and a call
\* made meanwhile is still at its Lock.
C5_SingleWriter ==
    \A t, u \in Threads :
        /\ InBody(t) => mu = t
        /\ (t # u /\ InBody(t)) => ~InBody(u)

\* A pass is between its temp-file write and its rename while the other
\* goroutine's pass waits at Lock.
C5_Witness ==
    \E t, u \in Threads :
        /\ t # u
        /\ pc[t] = "aw_rename" /\ fr[t].op = "update"
        /\ pc[u] = "lock" /\ fr[u].op = "update"

\* C6: when a pass is over, the printers it treated as eligible are exactly
\* those that are not excluded (without regard to case), are shared unless
\* shared-only is off, and accept jobs; their files are the ones it keeps.
\* So [A shared, B not shared] under shared-only keeps A's file alone.
C6_Filter ==
    \A t \in Threads :
        PassDone(t) =>
            LET eligible == { i \in 1..Len(fr[t].printers) : IsEligible(fr[t].printers[i]) }
            IN  /\ fr[t].seen = eligible
                /\ fr[t].currentPrinters = { FileOf(fr[t].printers[i]) : i \in eligible }

\* The scenario: shared-only, [A shared accepting, B not shared accepting].
C6_Witness ==
    \E t \in Threads :
        /\ PassDone(t) /\ sharedOnly /\ excludeList = <<>> /\ ~fr[t].failed
        /\ fr[t].printers = << Printer(NameA, TRUE, TRUE, FALSE),
                               Printer(NameBDot, FALSE, TRUE, FALSE) >>
        /\ fr[t].seen = {1}
        /\ fr[t].currentPrinters = {ServiceFileName(FilePrefix, NameA)}
        /\ disk[ServiceFileName(FilePrefix, NameA)]
               = TargetContent(Printer(NameA, TRUE, TRUE, FALSE))
        /\ fr[t].nwrites = 2

\* The files of the printers whose write has failed in t's pass.
FailedFiles(t) == { FileOf(fr[t].printers[i]) : i \in fr[t].failedIdx }

C7_Step(t) ==
    /\ (fr[t].failedIdx # fr'[t].failedIdx /\ fr[t].failedIdx \subseteq fr'[t].failedIdx)
           => /\ disk'[CurFile(t)] = fr[t].pre
              /\ pc'[t] = "up_loop"
              /\ fr'[t].printers = fr[t].printers
              /\ fr'[t].idx = fr[t].idx + 1
    /\ (pc[t] = "up_orphans" /\ pc'[t] \in {"up_orphans", "up_unlock"})
           => \A f \in FailedFiles(t) : disk'[f] = disk[f]
    /\ (pc[t] # "up_unlock" /\ pc'[t] = "up_unlock")
           => /\ fr'[t].result = NoErr
              /\ fr'[t].idx = Len(fr'[t].printers) + 1

\* C7: the step in which a printer's write fails leaves the printer's file
\* as it was and goes on with the next printer of the list; the loop that
\* removes orphans changes no file of a printer whose write failed; and the
\* pass ends after the whole list, returning no error.
C7_FailureIsolated == [][\A t \in Threads : C7_Step(t)]_vars

\* A pass is over in which the write for one printer failed, that printer's
\* tracked file is still there, and the other printer's file was written.
C7_Witness ==
    \E t \in Threads :
        /\ PassDone(t) /\ Cardinality(fr[t].seen) = 2
        /\ \E i \in fr[t].failedIdx :
             /\ fr[t].failedIdx = {i}
             /\ disk[FileOf(fr[t].printers[i])] \notin {NoFile, Partial}
             /\ disk[FileOf(fr[t].printers[i])] # TargetContent(fr[t].printers[i])
             /\ FileOf(fr[t].printers[i]) \in managedFiles
        /\ \E j \in fr[t].attempted \ fr[t].failedIdx :
             disk[FileOf(fr[t].printers[j])] = TargetContent(fr[t].printers[j])

\* C8 as claimed: a printer whose write failed in the pass before and whose
\* descriptor is the same and eligible in this pass has its write attempted
\* again, and if the write succeeds its file holds the target content when
\* the pass is over.
C8_AsClaimed ==
    \A t \in Threads :
        PassDone(t) =>
            \A i \in fr[t].retry :
                IsEligible(fr[t].printers[i]) =>
                    /\ i \in fr[t].attempted
                    /\ i \notin fr[t].failedIdx =>
                         disk[FileOf(fr[t].printers[i])] = TargetContent(fr[t].printers[i])

\* C8, amended: a printer whose write failed in the pass before and whose
\* descriptor is the same and eligible in this pass is compared with its
\* file again, and unless its write fails again, or a later eligible printer
\* of the list has the same file name, its file holds the target content
\* when the pass is over (written again, or found to hold it already).
C8_SelfHealing ==
    \A t \in Threads :
        PassDone(t) =>
            \A i \in fr[t].retry :
                IsEligible(fr[t].printers[i]) =>
                    /\ i \in fr[t].seen
                    /\ (i \notin fr[t].failedIdx /\ LastForFile(t, i)) =>
                         disk[FileOf(fr[t].printers[i])] = TargetContent(fr[t].printers[i])

\* The pass after a failed write is over: the write was made again, it
\* succeeded, and the file holds the target content.
C8_Witness ==
    \E t \in Threads :
        /\ PassDone(t)
        /\ \E i \in fr[t].retry :
             /\ IsEligible(fr[t].printers[i])
             /\ i \in fr[t].attempted /\ i \notin fr[t].failedIdx
             /\ disk[FileOf(fr[t].printers[i])] = TargetContent(fr[t].printers[i])

\* C9: no target file ever holds partial content, and from the moment an
\* update of a file starts until its rename the file is what it was before
\* (absent or the old content), a crash in between included.
C9_CrashAtomic ==
    /\ \A f \in Targets : disk[f] # Partial
    /\ \A t \in Threads :
         pc[t] \in {"aw_write", "aw_write2", "aw_rename"} => disk[CurFile(t)] = fr[t].pre

\* The process died between the temp-file write and the rename: the temp
\* file is complete, the target still holds the old content.
C9_Witness ==
    /\ pc["main"] = "crashed"
    /\ \E f \in Targets :
         /\ disk[TmpPath(f)] \notin {NoFile, Partial}
         /\ disk[f] \notin {NoFile, Partial}
         /\ disk[f] # disk[TmpPath(f)]

\* The files of a sequence of failed removals.
FailedRemovals(t) == { fr[t].failSeq[i] : i \in 1..Len(fr[t].failSeq) }

\* C10: when Cleanup's loop is over, every managed file is gone or its
\* removal has failed; Cleanup then returns the error of the last removal
\* that failed, or nil, and leaves the managed set empty.
C10_Cleanup ==
    \A t \in Threads :
        /\ (pc[t] = "cl_loop" /\ fr[t].todo = {})
               => \A f \in managedFiles : disk[f] = NoFile \/ f \in FailedRemovals(t)
        /\ pc[t] = "cl_unlock"
               => /\ managedFiles = {}
                  /\ fr[t].result = IF fr[t].failSeq = <<>> THEN NoErr
                                    ELSE <<"remove", fr[t].failSeq[Len(fr[t].failSeq)]>>

\* Cleanup is over after two removals failed, one after the other.
C10_Witness ==
    \E t \in Threads :
        /\ pc[t] = "cl_unlock"
        /\ Len(fr[t].failSeq) = 2
        /\ fr[t].failSeq[1] # fr[t].failSeq[2]
        /\ fr[t].result = <<"remove", fr[t].failSeq[2]>>
        /\ managedFiles = {}

\* The conditions of the service directory that the startup check refuses.
BadDirs == {"missing", "notdir", "readonly"}

\* One step of a daemon that started on such a directory.
C11_Step ==
    dirState \in BadDirs =>
        /\ pc'["main"] \in {"exited", "crashed"}
        /\ pc'["main"] = "exited" => exitErr' # NoErr
        /\ fr'["main"] = NoFrame /\ ~prev'.begun
        /\ disk' = disk /\ managedFiles' = {}
        /\ ~ippStarted'

\* C11: when the service directory is missing, is not a directory or is not
\* writable at start, every step the daemon takes ends Run (with an error,
\* unless the process dies first): no Manager call begins, no file of the
\* directory is written or deleted, and the proxy server is not started.
C11_FatalStartup == [][C11_Step]_vars

\* Run has returned the error of the directory check.
C11_Witness ==
    /\ dirState \in BadDirs
    /\ pc["main"] = "exited"
    /\ exitErr = verifyServiceDir(dirState)
    /\ \E f \in Targets : disk[f] # NoFile

\* ------------------------------------------------------- the proxy server
\* The group tags of the protocol, as the RFC gives them; a group list ends
\* with TagEnd.
GroupTags == {1, 2, 4, 5}

\* The number two bytes of m at position i (from 1) encode, big-endian.
U16At(m, i) == m[i] * 256 + m[i + 1]

\* Walks the attribute section of message m from position i: group tags and
\* attributes (tag, name length, name, value length, value) up to the end
\* marker.  The result is the position of the end marker, or 0 when the
\* section breaks off or an attribute precedes every group.
RECURSIVE EndOfGroups(_, _, _)
EndOfGroups(m, i, inGroup) ==
    IF i > Len(m) THEN 0
    ELSE IF m[i] = TagEnd THEN i
    ELSE IF m[i] \in GroupTags THEN EndOfGroups(m, i + 1, TRUE)
    ELSE IF ~inGroup \/ m[i] < 16 \/ i + 2 > Len(m) THEN 0
    ELSE LET n == U16At(m, i + 1)
         IN  IF i + 4 + n > Len(m) THEN 0
             ELSE LET v == U16At(m, i + 3 + n)
                  IN  IF i + 4 + n + v > Len(m) THEN 0
                      ELSE EndOfGroups(m, i + 5 + n + v, TRUE)

\* m is a protocol message: an 8-byte header, attribute groups, and the end
\* marker as its last byte.
WellFormed(m) == Len(m) >= 8 /\ EndOfGroups(m, 9, FALSE) = Len(m)

\* The attributes of a well-formed message from position i on, each with
\* the tag of its group.
RECURSIVE Attrs(_, _, _)
Attrs(m, i, group) ==
    IF m[i] = TagEnd THEN <<>>
    ELSE IF m[i] \in GroupTags THEN Attrs(m, i + 1, m[i])
    ELSE LET n == U16At(m, i + 1)
             v == U16At(m, i + 3 + n)
         IN  << [group |-> group, tag |-> m[i], name |-> SubSeq(m, i + 3, i + 2 + n),
                 value |-> SubSeq(m, i + 5 + n, i + 4 + n + v)] >>
             \o Attrs(m, i + 5 + n + v, group)

\* The message has, in the group, an attribute of that name and value.
HasAttr(m, group, name, value) ==
    \E k \in 1..Len(Attrs(m, 9, 0)) :
        LET a == Attrs(m, 9, 0)[k]
        IN  a.group = group /\ a.name = name /\ a.value = value

\* The message has a group with that tag.
RECURSIVE GroupsFrom(_, _)
GroupsFrom(m, i) ==
    IF m[i] = TagEnd THEN {}
    ELSE IF m[i] \in GroupTags THEN {m[i]} \cup GroupsFrom(m, i + 1)
    ELSE LET n == U16At(m, i + 1)
             v == U16At(m, i + 3 + n)
         IN  GroupsFrom(m, i + 5 + n + v)
HasGroup(m, group) == group \in GroupsFrom(m, 9)

\* The status (or operation) code and the request id bytes of a message.
CodeOf(m)      == U16At(m, 3)
RequestIDOf(m) == SubSeq(m, 5, 8)

\* The latest exchange was a POST whose body the server read.
Posted == exch.handled /\ exch.req.method = "POST" /\ exch.req.readOK

\* ... and the body has the 8 bytes of a header.
Decoded == Posted /\ Len(exch.req.body) >= 8

\* C12: every POST body the server handles gets a response body that is a
\* well-formed protocol message, with the request id of the request when the
\* request has one.
C12_ValidResponse ==
    Posted =>
        /\ WellFormed(exch.resp.body)
        /\ Len(exch.req.body) >= 8 => RequestIDOf(exch.resp.body) = RequestIDOf(exch.req.body)

\* C13: a POST body shorter than 8 bytes is answered, with HTTP status 200,
\* by a well-formed protocol message of status client-error-bad-request.
C13_TruncatedAnswered ==
    Posted /\ Len(exch.req.body) < 8 =>
        /\ exch.resp.status = 200
        /\ WellFormed(exch.resp.body)
        /\ CodeOf(exch.resp.body) = 1024

\* The operation code of the request of the latest exchange.
OpOf == U16At(exch.req.body, 3)

\* The handler that the specification gives each operation code.
HandlerOf ==
    [op \in {2, 4, 8, 9, 10, 11} |->
        CASE op = 2  -> "handlePrintJob"
          [] op = 4  -> "handleValidateJob"
          [] op = 8  -> "handleCancelJob"
          [] op = 9  -> "handleGetJobAttributes"
          [] op = 10 -> "handleGetJobs"
          [] op = 11 -> "handleGetPrinterAttributes"]

\* C14: a request that carries an operation code (a POST body with a full
\* header) is handled by the handler of its code when the code is one of the
\* six; with any other code the response has status client-error-bad-request
\* and the backend is not called.
C14_Dispatch ==
    Decoded =>
        IF OpOf \in DOMAIN HandlerOf
        THEN exch.handler = HandlerOf[OpOf]
        ELSE /\ exch.resp.status = 200
             /\ WellFormed(exch.resp.body)
             /\ CodeOf(exch.resp.body) = 1024
             /\ exch.calls = <<>>

\* A complete request with code 0x4002, whose low byte is Print-Job's, has
\* been refused.
C14_Witness ==
    /\ Decoded
    /\ OpOf = 16386
    /\ exch.req.body[Len(exch.req.body)] = TagEnd
    /\ CodeOf(exch.resp.body) = 1024

\* No byte of the body after the header is the end marker.
NoEndMarker(body) == \A i \in 9..Len(body) : body[i] # TagEnd

RECURSIVE DecimalOf(_)
DecimalOf(ds) ==
    IF ds = <<>> THEN 0 - 1
    ELSE LET d == ds[Len(ds)] - 48
         IN  IF d < 0 \/ d > 9 THEN 0 - 1
             ELSE IF Len(ds) = 1 THEN d
             ELSE IF DecimalOf(SubSeq(ds, 1, Len(ds) - 1)) < 0 THEN 0 - 1
             ELSE DecimalOf(SubSeq(ds, 1, Len(ds) - 1)) * 10 + d

\* The value is the server's printer URI, "/jobs/" and the decimal job id.
IsJobURI(value, id) ==
    LET prefix == [i \in 1..Len(srv.printerURI) |-> OrdTable[srv.printerURI[i]]]
                  \o <<47, 106, 111, 98, 115, 47>>
        n      == Len(prefix)
    IN  /\ Len(value) > n
        /\ SubSeq(value, 1, n) = prefix
        /\ DecimalOf(SubSeq(value, n + 1, Len(value))) = id

\* C16: when the backend's submit fails the response has status
\* server-error-internal-error and no job-attributes group, and the server
\* still serves; when it succeeds the response has status OK and a
\* job-attributes group with the backend's job id, the job URI made of that
\* id, and job-state 3.  After a failed submit the server goes on answering.
C16_PrintJobOutcome ==
    /\ exch.handled /\ exch.calls # <<>> =>
         LET m  == exch.resp.body
             id == exch.calls[1].result.jobID
         IN  /\ Len(exch.calls) = 1
             /\ exch.resp.status = 200
             /\ WellFormed(m)
             /\ IF exch.calls[1].result.ok
                THEN /\ CodeOf(m) = 0
                     /\ HasAttr(m, 2, <<106, 111, 98, 45, 105, 100>>, <<0, 0, id \div 256, id % 256>>)
                     /\ \E k \in 1..Len(Attrs(m, 9, 0)) :
                          /\ Attrs(m, 9, 0)[k].group = 2
                          /\ Attrs(m, 9, 0)[k].name = <<106, 111, 98, 45, 117, 114, 105>>
                          /\ IsJobURI(Attrs(m, 9, 0)[k].value, id)
                     /\ HasAttr(m, 2, <<106, 111, 98, 45, 115, 116, 97, 116, 101>>, <<0, 0, 0, 3>>)
                ELSE /\ CodeOf(m) = 1280
                     /\ ~HasGroup(m, 2)
                     /\ ippStarted /\ srv.listening
    /\ past.submitFailed => ippStarted /\ srv.listening /\ exch.handled

\* After a submit that failed, a Print-Job has been submitted and answered
\* with job id 300.
C16_Witness ==
    /\ past.submitFailed
    /\ exch.handled /\ exch.calls # <<>>
    /\ exch.calls[1].result = [ok |-> TRUE, jobID |-> 300]
    /\ CodeOf(exch.resp.body) = 0

\* C17: for a Print-Job body made of the header, well-formed attribute
\* groups, their end marker and document bytes, the bytes handed to the
\* backend are exactly the bytes after that end marker.
C17_Boundary ==
    Decoded /\ OpOf = 2 /\ EndOfGroups(exch.req.body, 9, FALSE) > 0 =>
        /\ Len(exch.calls) = 1
        /\ exch.calls[1].document
             = SubSeq(exch.req.body, EndOfGroups(exch.req.body, 9, FALSE) + 1,
                      Len(exch.req.body))

\* C18: a request whose method is not POST, on either path, gets the
\* method error (HTTP 405) and is neither decoded nor dispatched.
C18_MethodCheck ==
    exch.handled /\ exch.req.method # "POST" =>
        /\ exch.resp.status = 405
        /\ exch.handler = "none"
        /\ exch.calls = <<>>

\* C19: Get-Job-Attributes and Cancel-Job both answer with status OK and
\* the job-state completed (9).
C19_JobStubs ==
    Decoded /\ OpOf \in {8, 9} =>
        /\ WellFormed(exch.resp.body)
        /\ CodeOf(exch.resp.body) = 0
        /\ HasAttr(exch.resp.body, 2, <<106, 111, 98, 45, 115, 116, 97, 116, 101>>, <<0, 0, 0, 9>>)

\* The bytes of a string of the model.
BytesOf(str) == [i \in 1..Len(str) |-> OrdTable[str[i]]]

\* C20: the printer group of a Get-Printer-Attributes response describes
\* the first printer of the latest poll (name, make and model, location,
\* color), with queued-job-count 0 and printer-state idle (3).
C20_Snapshot ==
    Decoded /\ OpOf = 11 /\ Len(snapshot) > 0 =>
        LET m == exch.resp.body
            p == snapshot[1]
        IN  /\ WellFormed(m)
            /\ HasAttr(m, 4, <<112, 114, 105, 110, 116, 101, 114, 45, 110, 97, 109, 101>>, BytesOf(p.Name))
            /\ HasAttr(m, 4, <<112, 114, 105, 110, 116, 101, 114, 45, 109, 97, 107, 101, 45, 97, 110, 100, 45, 109, 111, 100, 101, 108>>, BytesOf(p.MakeModel))
            /\ HasAttr(m, 4, <<112, 114, 105, 110, 116, 101, 114, 45, 108, 111, 99, 97, 116, 105, 111, 110>>, BytesOf(p.Location))
            /\ HasAttr(m, 4, <<99, 111, 108, 111, 114, 45, 115, 117, 112, 112, 111, 114, 116, 101, 100>>, << IF p.ColorSupported THEN 1 ELSE 0 >>)
            /\ HasAttr(m, 4, <<113, 117, 101, 117, 101, 100, 45, 106, 111, 98, 45, 99, 111, 117, 110, 116>>, <<0, 0, 0, 0>>)
            /\ HasAttr(m, 4, <<112, 114, 105, 110, 116, 101, 114, 45, 115, 116, 97, 116, 101>>, <<0, 0, 0, 3>>)

\* The entries of a well-formed message from position i on, in order: a
\* group tag (the g-th group opens), or an attribute with its name.
RECURSIVE Items(_, _, _)
Items(m, i, g) ==
    IF m[i] = TagEnd THEN <<>>
    ELSE IF m[i] \in GroupTags
         THEN << [isGroup |-> TRUE, grp |-> g + 1, name |-> <<>>] >> \o Items(m, i + 1, g + 1)
    ELSE LET n == U16At(m, i + 1)
             v == U16At(m, i + 3 + n)
         IN  << [isGroup |-> FALSE, grp |-> g, name |-> SubSeq(m, i + 3, i + 2 + n)] >>
             \o Items(m, i + 5 + n + v, g)

\* C21: in every message the server encodes, the additional values of a
\* multi-valued attribute are empty-name entries right after the one entry
\* that carries the name: no name is written as a named entry twice in one
\* group, and no empty-name entry directly follows a group tag.
C21_MultiValued ==
    exch.handled /\ WellFormed(exch.resp.body) =>
        LET it == Items(exch.resp.body, 9, 0)
        IN  /\ \A k \in 1..Len(it) :
                  ~it[k].isGroup /\ it[k].name = <<>> => k > 1 /\ ~it[k - 1].isGroup
            /\ \A j, k \in 1..Len(it) :
                  /\ j < k
                  /\ ~it[j].isGroup /\ ~it[k].isGroup
                  /\ it[j].grp = it[k].grp
                  /\ it[j].name # <<>>
                  => it[j].name # it[k].name

\* ------------------------------------------------------ the message codec
\* The reference decoder of the wire format: the character of a byte, the
\* signed number of four bytes, a value by the class of its tag.
Chr(b) == CHOOSE c \in DOMAIN OrdTable : OrdTable[c] = b
TextOf(bytes) == [i \in 1..Len(bytes) |-> Chr(bytes[i])]
SignedOf(b) ==
    (((IF b[1] >= 128 THEN b[1] - 256 ELSE b[1]) * 256 + b[2]) * 256 + b[3]) * 256 + b[4]
ValueOf(tag, bytes) ==
    IF tag \in {33, 35} THEN [kind |-> "int32", v |-> SignedOf(bytes)]
    ELSE IF tag = 34 THEN [kind |-> "bool", v |-> bytes[1] = 1]
    ELSE [kind |-> "string", v |-> TextOf(bytes)]

\* The groups of the well-formed message w from position i on, appended to
\* groups: a group tag opens a group, a named entry an attribute, and an
\* entry with an empty name adds a value to the attribute before it.
RECURSIVE DecodeFrom(_, _, _)
DecodeFrom(w, i, groups) ==
    IF w[i] = TagEnd THEN groups
    ELSE IF w[i] \in GroupTags
         THEN DecodeFrom(w, i + 1, Append(groups, [tag |-> w[i], attrs |-> <<>>]))
    ELSE LET n    == U16At(w, i + 1)
             v    == U16At(w, i + 3 + n)
             name == TextOf(SubSeq(w, i + 3, i + 2 + n))
             val  == ValueOf(w[i], SubSeq(w, i + 5 + n, i + 4 + n + v))
             g    == Len(groups)
             k    == Len(groups[g].attrs)
         IN  IF n > 0
             THEN DecodeFrom(w, i + 5 + n + v,
                     [groups EXCEPT ![g].attrs =
                         Append(@, [tag |-> w[i], name |-> name, values |-> <<val>>])])
             ELSE DecodeFrom(w, i + 5 + n + v,
                     [groups EXCEPT ![g].attrs[k].values = Append(@, val)])

ValuesOf(list) == { list[i] : i \in 1..Len(list) }
NumberOf(str) == DecimalOf(BytesOf(str))

RECURSIVE SplitAt(_, _)
SplitAt(str, sep) ==
    IF \A i \in 1..Len(str) : str[i] # sep THEN <<str>>
    ELSE LET k == CHOOSE i \in 1..Len(str) : str[i] = sep /\ \A j \in 1..(i - 1) : str[j] # sep
         IN  <<SubSeq(str, 1, k - 1)>> \o SplitAt(SubSeq(str, k + 1, Len(str)), sep)

\* token is the resolution token of the list: RS and the one distinct value,
\* RS and the least and the greatest value with a dash between, RS300 for
\* the empty list.
IsTokenOf(token, list) ==
    LET S      == ValuesOf(list)
        least  == CHOOSE x \in S : \A y \in S : x <= y
        most   == CHOOSE x \in S : \A y \in S : x >= y
        pieces == SplitAt(Tail(token), "-")
    IN  /\ Len(token) >= 2 /\ Head(token) = "RS"
        /\ IF S = {} THEN Tail(token) = <<"3", "0", "0">>
           ELSE IF Cardinality(S) = 1
                THEN Len(pieces) = 1 /\ NumberOf(pieces[1]) = least
                ELSE /\ Len(pieces) = 2
                     /\ NumberOf(pieces[1]) = least
                     /\ NumberOf(pieces[2]) = most

\* C23: for every list of resolutions the token is RS<v> when the list has
\* one distinct value v, RS<min>-<max> when it has more, whatever the order
\* and the repeats, and RS300 when the list is empty -- whether the list went
\* through NewURFCapabilities or not.
C23_ResolutionToken ==
    calc.stage \in {"translated", "generated", "regenerated"} =>
        /\ IsTokenOf(calc.token, calc.printer.Resolutions)
        /\ IsTokenOf(calc.bare, calc.printer.Resolutions)

\* The list 600, 300, 1200 has been given the token RS300-1200.
C23_Witness ==
    /\ calc.stage = "translated"
    /\ calc.printer.Resolutions = <<600, 300, 1200>>
    /\ calc.token = <<"RS", "3", "0", "0", "-", "1", "2", "0", "0">>

\* C24: the capability string is, joined by commas and in this order, the
\* color modes (W8, then SRGB24 exactly when color is supported), CP255, the
\* one resolution token, and the duplex modes (DM1, then DM3 and DM4 exactly
\* when duplex is supported).
C24_CapabilityString ==
    calc.stage \in {"translated", "generated", "regenerated"} =>
        LET parts  == SplitAt(calc.urf, ",")
            p      == calc.printer
            colors == IF p.ColorSupported THEN << <<"W8">>, <<"SRGB24">> >> ELSE << <<"W8">> >>
            duplex == IF p.DuplexSupported THEN << <<"DM1">>, <<"DM3">>, <<"DM4">> >>
                      ELSE << <<"DM1">> >>
            has(x) == \E i \in 1..Len(parts) : parts[i] = <<x>>
        IN  /\ Len(parts) = Len(colors) + 2 + Len(duplex)
            /\ SubSeq(parts, 1, Len(colors)) = colors
            /\ parts[Len(colors) + 1] = <<"CP255">>
            /\ IsTokenOf(parts[Len(colors) + 2], p.Resolutions)
            /\ SubSeq(parts, Len(colors) + 3, Len(parts)) = duplex
            /\ Cardinality({ i \in 1..Len(parts) : Head(parts[i]) = "RS" }) = 1
            /\ has("W8") /\ has("CP255") /\ has("DM1")
            /\ has("SRGB24") <=> p.ColorSupported
            /\ (has("DM3") /\ has("DM4")) <=> p.DuplexSupported
            /\ (has("DM3") \/ has("DM4")) => p.DuplexSupported

\* A color, duplex printer with the resolutions 300, 600, 300 has its string.
C24_Witness ==
    /\ calc.stage = "translated"
    /\ calc.printer.ColorSupported /\ calc.printer.DuplexSupported
    /\ calc.printer.Resolutions = <<300, 600, 300>>
    /\ calc.urf = <<"W8", ",", "SRGB24", ",", "CP255", ",", "RS", "3", "0", "0", "-",
                    "6", "0", "0", ",", "DM1", ",", "DM3", ",", "DM4">>

\* C25: the record set of every printer descriptor, one with no make/model
\* and no location included, has all the required keys (txtvers, qtotal, rp,
\* ty, note, pdl, URF, Color, Duplex, product, priority, Transparent, Binary),
\* with rp = printers/<name>, ty the make/model or else the name, Color and
\* Duplex T or F as the printer supports them, and a pdl list that starts
\* with image/urf.
C25_RequiredRecords ==
    calc.stage \in {"translated", "generated", "regenerated"} =>
        LET p == calc.printer
            t == calc.txt
        IN  /\ {"txtvers", "qtotal", "rp", "ty", "note", "pdl", "URF", "Color", "Duplex",
                "product", "priority", "Transparent", "Binary"} \subseteq DOMAIN t
            /\ t["rp"] = <<"printers/">> \o p.Name
            /\ t["ty"] = (IF p.MakeModel = <<>> THEN p.Name ELSE p.MakeModel)
            /\ t["Color"] = (IF p.ColorSupported THEN <<"T">> ELSE <<"F">>)
            /\ t["Duplex"] = (IF p.DuplexSupported THEN <<"T">> ELSE <<"F">>)
            /\ Head(SplitAt(t["pdl"], ",")) = <<"image/urf">>

\* C26: whatever media a printer supports, its record set has no record
\* that lists media sizes, and so the file content has none.
C26_NoMediaRecord ==
    /\ calc.stage \in {"translated", "generated", "regenerated"} =>
         "media" \notin DOMAIN calc.txt
    /\ calc.stage \in {"generated", "regenerated"} =>
         \A i \in 1..Len(calc.file.txt) : Head(calc.file.txt[i]) # "media"

\* The bytes that spell a record key, and the order of byte strings that
\* sort.Strings sorts by.
KeyBytes(k) ==
    CASE k = "Binary" -> <<66, 105, 110, 97, 114, 121>>
      [] k = "Color" -> <<67, 111, 108, 111, 114>>
      [] k = "Duplex" -> <<68, 117, 112, 108, 101, 120>>
      [] k = "TBCP" -> <<84, 66, 67, 80>>
      [] k = "Transparent" -> <<84, 114, 97, 110, 115, 112, 97, 114, 101, 110, 116>>
      [] k = "URF" -> <<85, 82, 70>>
      [] k = "media" -> <<109, 101, 100, 105, 97>>
      [] k = "note" -> <<110, 111, 116, 101>>
      [] k = "pdl" -> <<112, 100, 108>>
      [] k = "printer-state" -> <<112, 114, 105, 110, 116, 101, 114, 45, 115, 116, 97, 116, 101>>
      [] k = "priority" -> <<112, 114, 105, 111, 114, 105, 116, 121>>
      [] k = "product" -> <<112, 114, 111, 100, 117, 99, 116>>
      [] k = "qtotal" -> <<113, 116, 111, 116, 97, 108>>
      [] k = "rp" -> <<114, 112>>
      [] k = "txtvers" -> <<116, 120, 116, 118, 101, 114, 115>>
      [] k = "ty" -> <<116, 121>>

RECURSIVE BytesLess(_, _)
BytesLess(a, b) ==
    IF b = <<>> THEN FALSE
    ELSE IF a = <<>> THEN TRUE
    ELSE IF Head(a) # Head(b) THEN Head(a) < Head(b)
    ELSE BytesLess(Tail(a), Tail(b))

\* C27: for a fixed printer descriptor and port the descriptor content is
\* the same on every invocation, with its TXT-record elements in ascending
\* key order: generating it again gives what was generated before.
C27_Deterministic ==
    /\ calc.stage \in {"generated", "regenerated"} =>
         \A i \in 1..(Len(calc.file.txt) - 1) :
            BytesLess(KeyBytes(Head(calc.file.txt[i])), KeyBytes(Head(calc.file.txt[i + 1])))
    /\ calc.stage = "regenerated" => calc.again = calc.file

\* A character of [A-Za-z0-9_-], told by its byte.
IsSafeChar(c) ==
    /\ c \in DOMAIN OrdTable
    /\ OrdTable[c] \in (48..57) \cup (65..90) \cup (97..122) \cup {45, 95}

\* C28: the file name of a printer is the prefix, then the printer name with
\* every character outside [A-Za-z0-9_-] replaced by "_" and every other
\* character kept in place, then ".service"; sanitising the sanitised name
\* again changes nothing.
C28_FileName ==
    calc.stage \in {"generated", "regenerated"} =>
        LET name == calc.printer.Name
            s    == [i \in 1..Len(name) |-> IF IsSafeChar(name[i]) THEN name[i] ELSE "_"]
        IN  /\ calc.filename = calc.prefix \o s \o <<".service">>
            /\ Len(calc.filename) = Len(calc.prefix) + Len(name) + 1
            /\ ServiceFileName(calc.prefix, s) = calc.filename

\* The name "c é/" has been given its file name.
C28_Witness ==
    /\ calc.stage = "generated"
    /\ calc.printer.Name = <<"c", " ", "é", "/">>
    /\ calc.prefix = <<"airprint-">>
    /\ calc.filename = <<"airprint-", "c", "_", "_", "_", ".service">>

\* ------------------------------------------------------ file name collisions
\* Places i < j of t's list hold eligible printers with different names and
\* the same service file name.
Collide(t, i, j) ==
    /\ i < j
    /\ IsEligible(fr[t].printers[i]) /\ IsEligible(fr[t].printers[j])
    /\ fr[t].printers[i].Name # fr[t].printers[j].Name
    /\ FileOf(fr[t].printers[i]) = FileOf(fr[t].printers[j])

C30_Step ==
    /\ sig'.got => sig'.cleanups = 1
    /\ sig.got => /\ pc'["main"] # "sync"
                  /\ fr'["main"].op \notin {"update", "discover"}
    /\ (pc["main"] = "cl_unlock" /\ pc'["main"] = "exited")
           => exitErr' = fr["main"].result
    /\ (pc["main"] = "cl_loop" /\ pc'["main"] = "cl_unlock"
           /\ fr["main"].failSeq = <<>>)
           => \A f \in managedFiles : disk'[f] = NoFile
C30_Shutdown == [][C30_Step]_vars

\* C31 (reload on SIGHUP): the pass that follows a SIGHUP uses the
\* shared-only flag and the exclusion list the config file held when the
\* signal was taken, and the list GetPrinters returns then.
C31_Step ==
    (cfg.hup # NoHup /\ pc["main"] = "sync" /\ pc'["main"] = "lock")
        => /\ fr'["main"].op = "update"
           /\ fr'["main"].printers \in PrinterLists
           /\ sharedOnly' = cfg.hup.SharedOnly
           /\ excludeList' = cfg.hup.Exclude
C31_Reload == [][C31_Step]_vars

\* C32 (configured shared-only takes effect): when a config file was loaded
\* the shared-only setting the daemon's passes read is the file's
\* printers.shared_only unless --shared-only is on the command line, and
\* the flag's value when it is.
C32_SharedOnly ==
    (calc.stage = "daemon" /\ calc.loaded.ok)
        => calc.daemonConfig.SharedOnly
             = IF calc.args.sharedOnlyGiven THEN calc.args.sharedOnly
               ELSE calc.loaded.cfg.Printers.SharedOnly

\* C33 (no tracking lost on a failed deletion): in every step of an
\* UpdatePrinters pass, a filename that leaves the managed set is the name
\* of a file that is no longer on disk; a file whose deletion failed stays
\* in the set.
C33_Step ==
    (fr["main"].op = "update" /\ fr'["main"].op = "update")
        => \A f \in managedFiles \ managedFiles' : disk'[f] = NoFile
C33_KeepTracked == [][C33_Step]_vars

\* C34 (tracking invariant): when a pass is complete, the target filename of
\* every eligible printer of its list whose file is on disk is in the
\* managed set, whether the pass wrote the file or found it unchanged.
C34_Tracked ==
    (PassDone("main") /\ fr["main"].op = "update")
        => \A i \in 1..Len(fr["main"].printers) :
               (IsEligible(fr["main"].printers[i])
                    /\ disk[FileOf(fr["main"].printers[i])] # NoFile)
                   => FileOf(fr["main"].printers[i]) \in managedFiles

\* The target files of the printers of main's list that are eligible.
EligibleFiles ==
    { FileOf(fr["main"].printers[i]) :
        i \in { j \in 1..Len(fr["main"].printers) : IsEligible(fr["main"].printers[j]) } }

\* C35 (frame of a pass): a step of an UpdatePrinters pass removes a file
\* only if its name was in the managed set when the pass started, or it is
\* a file (target or temp sibling) the pass wrote before; it creates or
\* overwrites only the target files and temp siblings of the printers
\* eligible in the pass; every other path of the directory keeps its
\* content.
C35_Step ==
    (fr["main"].op = "update" /\ fr'["main"].op = "update" /\ pc["main"] # "lock")
        => \A p \in AllPaths :
             disk'[p] # disk[p]
                => IF disk'[p] = NoFile
                   THEN p \in fr["main"].todo
                               \cup { FileOf(fr["main"].printers[i]) :
                                        i \in fr["main"].attempted \ fr["main"].failedIdx }
                               \cup { TmpPath(FileOf(fr["main"].printers[i])) :
                                        i \in fr["main"].attempted }
                   ELSE p \in EligibleFiles \cup { TmpPath(f) : f \in EligibleFiles }
C35_Frame == [][C35_Step]_vars

\* A complete pass has written a file and removed one that was managed when
\* it started, next to a file that is not the daemon's.
C35_Witness ==
    /\ PassDone("main") /\ fr["main"].op = "update"
    /\ fr["main"].attempted \ fr["main"].failedIdx # {}
    /\ \E f \in fr["main"].todo \ managedFiles : disk[f] = NoFile
    /\ disk[ForeignFile] = ForeignContent

\* C36 (managed set after a pass): when a pass is complete, with or without
\* failed filesystem operations, every filename of the managed set is the
\* target filename of a printer of the list that is eligible.
C36_ManagedEligible ==
    (PassDone("main") /\ fr["main"].op = "update") => managedFiles \subseteq EligibleFiles

\* A complete pass in which an operation failed has dropped a name and left
\* another in the managed set.
C36_Witness ==
    /\ PassDone("main") /\ fr["main"].op = "update"
    /\ fr["main"].failed
    /\ managedFiles # {}
    /\ fr["main"].todo \ managedFiles # {}

\* The files that were tracked when main's pass started and belong to a
\* printer of its list that is not eligible, no eligible printer of the list
\* having the same filename.
Withdrawn ==
    { f \in fr["main"].todo \ EligibleFiles :
        \E i \in 1..Len(fr["main"].printers) :
            /\ FileOf(fr["main"].printers[i]) = f
            /\ ~IsEligible(fr["main"].printers[i]) }

C38_Step ==
    (~outage /\ outage')
        => /\ pc["main"] = "sync" /\ pc'["main"] = "select"
           /\ fr' = fr /\ mu' = mu /\ prev' = prev
           /\ disk' = disk
           /\ managedFiles' = managedFiles
           /\ exitErr' = exitErr
C38_Outage == [][C38_Step]_vars

\* A sync of the main loop has failed while a tracked descriptor is on disk.
C38_Witness ==
    /\ outage /\ pc["main"] = "select"
    /\ sig.ready /\ prev.valid
    /\ \E f \in managedFiles : disk[f] # NoFile

\* C39 (Print-Job target): the server keeps the printer name it was built
\* with, whatever the later polls report, and every call it makes to the
\* backend's PrintJob carries that name, the bytes of the body from the
\* document boundary on, and the job name "AirPrint Job", whatever name the
\* request path holds.
C39_Step ==
    /\ (~srv.built /\ srv'.built) => srv'.printerName = PrinterConfig(snapshot').Name
    /\ srv.built => srv'.built /\ srv'.printerName = srv.printerName
    /\ (exch'.handled /\ exch' # exch)
          => \A i \in 1..Len(exch'.calls) :
               /\ exch'.calls[i].printerName = srv.printerName
               /\ exch'.calls[i].jobName
                    = <<"A", "i", "r", "P", "r", "i", "n", "t", " ", "J", "o", "b">>
               /\ exch'.calls[i].document
                    = SubSeq(exch'.req.body, findDocumentStart(exch'.req.body) + 1,
                             Len(exch'.req.body))
C39_Target == [][C39_Step]_vars

\* A Print-Job with a document, posted to the path of printer A, has been
\* forwarded by a server built for another printer, after a poll that
\* reported a different list.
C39_Witness ==
    /\ exch.handled /\ Len(exch.calls) = 1
    /\ exch.req.path = <<"/printers/">> \o NameA
    /\ srv.printerName = NameBDot
    /\ exch.calls[1].printerName = NameBDot
    /\ exch.calls[1].document # <<>>
    /\ (snapshot = <<>> \/ snapshot[1].Name # NameBDot)

====
